---- MODULE Spec2Model ----
(***************************************************************************)
(* Counter-drone simulator: the simulation engine (SimulationEngine in     *)
(* src/simulator/src/websocket/server.ts), the interceptor model           *)
(* (src/simulator/src/models/interceptor.ts) and the seeded scenario       *)
(* generator (src/unnamed/part_002).                                       *)
(*                                                                         *)
(* Units.  World time is kept in milliseconds, so that deltaTime =         *)
(* tickInterval / 1000 s is the integer tickInterval.  Probabilities are   *)
(* kept in units of 1/PScale: base_success_rate and evasion strength are   *)
(* percentages, the velocity factor is in tenths.  The code accumulates    *)
(* time += 0.1 in binary floating point, where twenty steps may come to    *)
(* 2.0000000000000004; the model counts time exactly, so an elapsed time   *)
(* here is the nominal one and differs from the code's by rounding only.   *)
(*                                                                         *)
(* Geometry.  Positions and velocities are real vectors driven by the      *)
(* hostile flight model, which is not part of the source at hand; the      *)
(* engine model therefore reads every distance and every kinematic         *)
(* quantity a branch of the code compares from an input record `geo`,      *)
(* drawn at each update from values on both sides of every threshold.      *)
(***************************************************************************)
EXTENDS Integers, Sequences, FiniteSets, TLC

NULL == "null"

\* launchTime: number | null  -- null is kept as a value outside the times
NoTime == 0 - 1

\* ------------------------------------------------------------------ bounds
\* number of ticks a run of the engine is followed for
MaxTicks == 26

\* ticks of one run of the experiment runner (experimentDuration / tickInterval)
MaxRunnerTicks == 50

\* --------------------------------------------------------------- constants
tickInterval == 100

\* the 2 s launch delay of updateInterceptor, in ms
LaunchDelay == 2000

\* arrival radius of a returning interceptor, in m
ArrivalRadius == 20

PScale == 10 * 1000 * 1000

\* Math.max(0.1, ...) and Math.min(0.95, ...) in units of 1/PScale
PMin == 1000 * 1000

PMax == 95 * 100 * 1000

\* the velocity and altitude thresholds of calculateInterceptProbability
SpeedHigh == 30

SpeedMid == 20

AltThreshold == 30

Max(a, b) == IF a >= b THEN a ELSE b

Min(a, b) == IF a <= b THEN a ELSE b

Abs(a) == IF a < 0 THEN 0 - a ELSE a

\* ------------------------------------------------- Map<string, T> as a list
\* A JavaScript Map keeps its keys in insertion order; set() of a present key
\* replaces the value in place, set() of a new key appends.
MapKeys(m) == { m[i].id : i \in 1..Len(m) }

MapHas(m, id) == \E i \in 1..Len(m) : m[i].id = id

MapIndex(m, id) == CHOOSE i \in 1..Len(m) : m[i].id = id

MapGet(m, id) == m[MapIndex(m, id)]

MapSet(m, id, v) ==
  IF MapHas(m, id)
  THEN [m EXCEPT ![MapIndex(m, id)] = v]
  ELSE Append(m, v)

\* --------------------------------------------------------------- entities
DEFAULT_INTERCEPTOR_CONFIG ==
  [ engagement_range |-> 30, base_success_rate |-> 75 ]

DEFAULT_HOSTILE_DRONE_CONFIG ==
  [ evasion_maneuver_strength |-> 60 ]

\* the absent target of updateInterceptor (target: HostileDrone | null)
NoHostile ==
  [ id |-> NULL, isNeutralized |-> FALSE, isEvading |-> FALSE,
    config |-> DEFAULT_HOSTILE_DRONE_CONFIG ]

createHostileDrone(id, config) ==
  [ id |-> id, isNeutralized |-> FALSE, isEvading |-> FALSE, config |-> config ]

createInterceptor(id, config) ==
  [ id |-> id, state |-> "STANDBY", config |-> config,
    targetId |-> NULL, launchTime |-> NoTime ]

launchInterceptor(interceptor, targetId, currentTime) ==
  IF interceptor.state # "STANDBY"
  THEN interceptor
  ELSE [interceptor EXCEPT !.state = "LAUNCHING",
                           !.targetId = targetId,
                           !.launchTime = currentTime]

\* interceptor.launchTime || 0 : null and 0 both give 0
LaunchTimeOrZero(interceptor) ==
  IF interceptor.launchTime = NoTime THEN 0 ELSE interceptor.launchTime


\* a hostile or interceptor record seen with the kinematics a computation reads
WithKinematics(entity, velocity, altitude) ==
  [ id |-> entity.id, config |-> entity.config,
    isEvading |-> IF "isEvading" \in DOMAIN entity THEN entity.isEvading ELSE FALSE,
    velocity |-> velocity, position |-> [ altitude |-> altitude ] ]

\* variant of speedFactor: the thresholds taken as "30 or more", "20 or more"
speedFactorFromThreshold(relativeSpeedSq) ==
  IF relativeSpeedSq >= SpeedHigh * SpeedHigh THEN 8
  ELSE IF relativeSpeedSq >= SpeedMid * SpeedMid THEN 9
  ELSE 10

\* the relative-speed factor, in tenths: 0.8 above SpeedHigh, 0.9 above
\* SpeedMid.  relativeSpeed is the norm of the horizontal velocity difference;
\* for integer components sqrt(s) > n holds exactly when s > n * n.
speedFactor(relativeSpeedSq) ==
  IF relativeSpeedSq > SpeedHigh * SpeedHigh THEN 8
  ELSE IF relativeSpeedSq > SpeedMid * SpeedMid THEN 9
  ELSE 10

\* variant of clampProbability: the upper limit only
clampProbabilityAbove(probability) ==
  Min(PMax, probability)

\* Math.max(0.1, Math.min(0.95, probability))
clampProbability(probability) ==
  Max(PMin, Min(PMax, probability))

\* variant of calculateInterceptProbability: the altitude factor taken as
\* "30 m or more"
calculateInterceptProbabilityAltFrom(interceptor, target) ==
  LET base == interceptor.config.base_success_rate
      dvx == interceptor.velocity.vx - target.velocity.vx
      dvy == interceptor.velocity.vy - target.velocity.vy
      afterSpeed == base * speedFactor(dvx * dvx + dvy * dvy)
      afterEvasion ==
        IF target.isEvading
        THEN afterSpeed * (100 - target.config.evasion_maneuver_strength)
        ELSE afterSpeed * 100
      altDiff == Abs(interceptor.position.altitude - target.position.altitude)
      probability ==
        IF altDiff >= AltThreshold THEN afterEvasion * 85 ELSE afterEvasion * 100
  IN  clampProbability(probability)

\* Intercept success probability, in units of 1/PScale: base_success_rate in
\* hundredths, times the speed factor in tenths, times the evasion factor
\* (1 - evasion_maneuver_strength) in hundredths, times the altitude factor
\* in hundredths.
calculateInterceptProbability(interceptor, target) ==
  LET base == interceptor.config.base_success_rate
      dvx == interceptor.velocity.vx - target.velocity.vx
      dvy == interceptor.velocity.vy - target.velocity.vy
      afterSpeed == base * speedFactor(dvx * dvx + dvy * dvy)
      afterEvasion ==
        IF target.isEvading
        THEN afterSpeed * (100 - target.config.evasion_maneuver_strength)
        ELSE afterSpeed * 100
      altDiff == Abs(interceptor.position.altitude - target.position.altitude)
      probability ==
        IF altDiff > AltThreshold THEN afterEvasion * 85 ELSE afterEvasion * 100
  IN  clampProbability(probability)

\* The inputs of one update that the kinematics decide.
NoGeo ==
  [ distToTarget |-> 0, distToBase |-> 0, sample |-> 0,
    interceptorVelocity |-> [ vx |-> 0, vy |-> 0 ], interceptorAltitude |-> 0,
    targetVelocity |-> [ vx |-> 0, vy |-> 0 ], targetAltitude |-> 0 ]

\* the success probability updateInterceptor computes under geo
SuccessProb(interceptor, target, geo) ==
  calculateInterceptProbability(
    WithKinematics(interceptor, geo.interceptorVelocity, geo.interceptorAltitude),
    WithKinematics(target, geo.targetVelocity, geo.targetAltitude))

\* variant of caseLAUNCHING: >= in place of >, the launch completing when
\* exactly the launch delay has passed
caseLAUNCHINGAtDelay(interceptor, currentTime) ==
  [ interceptor |->
      IF currentTime - LaunchTimeOrZero(interceptor) >= LaunchDelay
      THEN [interceptor EXCEPT !.state = "PURSUING"]
      ELSE interceptor,
    interceptResult |-> NULL ]

\* case 'LAUNCHING': PURSUING once more than the launch delay has passed
caseLAUNCHING(interceptor, currentTime) ==
  [ interceptor |->
      IF currentTime - LaunchTimeOrZero(interceptor) > LaunchDelay
      THEN [interceptor EXCEPT !.state = "PURSUING"]
      ELSE interceptor,
    interceptResult |-> NULL ]

\* variant of TargetGone: an evading target counts as gone
TargetGoneOrEvading(target) ==
  target.id = NULL \/ target.isNeutralized \/ target.isEvading

\* !target || target.isNeutralized ; target is NoHostile for null
TargetGone(target) == target.id = NULL \/ target.isNeutralized

\* variant of casePURSUING: without the check of the target, the pursuit of a
\* neutralized target goes on
casePURSUINGWithoutCheck(interceptor, target, geo) ==
  [ interceptor |->
      IF geo.distToTarget < interceptor.config.engagement_range * 2
      THEN [interceptor EXCEPT !.state = "ENGAGING"]
      ELSE interceptor,
    interceptResult |-> NULL ]

\* case 'PURSUING'
casePURSUING(interceptor, target, geo) ==
  IF TargetGone(target)
  THEN [ interceptor |->
           [interceptor EXCEPT !.state = "RETURNING", !.targetId = NULL],
         interceptResult |-> NULL ]
  ELSE [ interceptor |->
           IF geo.distToTarget < interceptor.config.engagement_range * 2
           THEN [interceptor EXCEPT !.state = "ENGAGING"]
           ELSE interceptor,
         interceptResult |-> NULL ]

\* variant of caseENGAGING: a target that got away (twice the engagement
\* range or farther) sends the interceptor back to PURSUING
caseENGAGINGDisengaging(interceptor, target, geo) ==
  IF TargetGone(target)
  THEN [ interceptor |->
           [interceptor EXCEPT !.state = "RETURNING", !.targetId = NULL],
         interceptResult |-> "ABORTED" ]
  ELSE IF geo.distToTarget < interceptor.config.engagement_range
       THEN [ interceptor |->
                [interceptor EXCEPT !.state = "RETURNING", !.targetId = NULL],
              interceptResult |->
                IF geo.sample < SuccessProb(interceptor, target, geo)
                THEN "SUCCESS"
                ELSE IF target.isEvading THEN "EVADED" ELSE "MISS" ]
       ELSE IF geo.distToTarget >= interceptor.config.engagement_range * 2
            THEN [ interceptor |-> [interceptor EXCEPT !.state = "PURSUING"],
                   interceptResult |-> NULL ]
            ELSE [ interceptor |-> interceptor, interceptResult |-> NULL ]

\* variant of caseENGAGING: the target binding is kept when the engagement
\* resolves
caseENGAGINGKeepingTarget(interceptor, target, geo) ==
  IF TargetGone(target)
  THEN [ interceptor |-> [interceptor EXCEPT !.state = "RETURNING"],
         interceptResult |-> "ABORTED" ]
  ELSE IF geo.distToTarget < interceptor.config.engagement_range
       THEN [ interceptor |-> [interceptor EXCEPT !.state = "RETURNING"],
              interceptResult |->
                IF geo.sample < SuccessProb(interceptor, target, geo)
                THEN "SUCCESS"
                ELSE IF target.isEvading THEN "EVADED" ELSE "MISS" ]
       ELSE [ interceptor |-> interceptor, interceptResult |-> NULL ]

\* variant of caseENGAGING: <= in place of < on the engagement range
caseENGAGINGAtRange(interceptor, target, geo) ==
  IF TargetGone(target)
  THEN [ interceptor |->
           [interceptor EXCEPT !.state = "RETURNING", !.targetId = NULL],
         interceptResult |-> "ABORTED" ]
  ELSE IF geo.distToTarget <= interceptor.config.engagement_range
       THEN [ interceptor |->
                [interceptor EXCEPT !.state = "RETURNING", !.targetId = NULL],
              interceptResult |->
                IF geo.sample < SuccessProb(interceptor, target, geo)
                THEN "SUCCESS"
                ELSE IF target.isEvading THEN "EVADED" ELSE "MISS" ]
       ELSE [ interceptor |-> interceptor, interceptResult |-> NULL ]

\* case 'ENGAGING': geo.sample is the value Math.random() returns
caseENGAGING(interceptor, target, geo) ==
  IF TargetGone(target)
  THEN [ interceptor |->
           [interceptor EXCEPT !.state = "RETURNING", !.targetId = NULL],
         interceptResult |-> "ABORTED" ]
  ELSE IF geo.distToTarget < interceptor.config.engagement_range
       THEN [ interceptor |->
                [interceptor EXCEPT !.state = "RETURNING", !.targetId = NULL],
              interceptResult |->
                IF geo.sample < SuccessProb(interceptor, target, geo)
                THEN "SUCCESS"
                ELSE IF target.isEvading THEN "EVADED" ELSE "MISS" ]
       ELSE [ interceptor |-> interceptor, interceptResult |-> NULL ]

\* case 'RETURNING'
caseRETURNING(interceptor, geo) ==
  [ interceptor |->
      IF geo.distToBase < ArrivalRadius
      THEN [interceptor EXCEPT !.state = "STANDBY"]
      ELSE interceptor,
    interceptResult |-> NULL ]

\* One update of an interceptor: the new interceptor and the intercept result.
updateInterceptor(interceptor, target, currentTime, geo) ==
  IF interceptor.state = "NEUTRALIZED" \/ interceptor.state = "STANDBY"
  THEN [ interceptor |-> interceptor, interceptResult |-> NULL ]
  ELSE
    CASE interceptor.state = "LAUNCHING" -> caseLAUNCHING(interceptor, currentTime)
      [] interceptor.state = "PURSUING" -> casePURSUING(interceptor, target, geo)
      [] interceptor.state = "ENGAGING" -> caseENGAGING(interceptor, target, geo)
      [] interceptor.state = "RETURNING" -> caseRETURNING(interceptor, geo)
      [] OTHER -> [ interceptor |-> interceptor, interceptResult |-> NULL ]

\* ================================================================ engine
VARIABLES
  time,              \* world.time, ms
  isRunning,         \* world.isRunning
  speedMultiplier,   \* world.speedMultiplier
  tickTimer,         \* NoTimer, or the multiplier the interval was created with
  liveTimers,        \* the number of intervals set and not cleared
  hostileDrones,     \* world.hostileDrones, in insertion order
  interceptors,      \* world.interceptors, in insertion order
  eventQueue,        \* SimulationEngine.eventQueue
  evadingDrones,     \* SimulationEngine.evadingDrones
  currentScenarioId, \* SimulationEngine.currentScenarioId
  autoEngage,        \* the onEvent callback engages on radar detections
  radarConfig,       \* world.radarConfig
  radarSensor,       \* SimulationEngine.radarSensor: its config, scan state
  pc,                \* position inside tick(): "idle" between ticks
  idx,               \* index of the interceptor the interceptor pass is at
  crashed,           \* an exception escaped a timer callback
  last,              \* the last operation: arguments, inputs and results
  events,            \* events the last operation passed to onEvent
  log                \* entries the last operation wrote to the logger

engineVars ==
  << time, isRunning, speedMultiplier, tickTimer, liveTimers, hostileDrones,
     interceptors,
     eventQueue, evadingDrones, currentScenarioId, autoEngage, radarConfig,
     radarSensor, pc, idx, crashed, last, events, log >>

\* ------------------------------------- state of the function-level runs
VARIABLES
  pair,              \* the interceptor/target pair a probability is computed for
  probability,       \* what calculateInterceptProbability returned for pair
  rawDraw,           \* the 32-bit numerator of a value next() returns
  ranged,            \* what the generator makes of rawDraw in each of its ranges
  flight,            \* an interceptor with its kinematics, before an update
  flown,             \* what updateInterceptor returned for flight
  batch,             \* a configuration of the experiment runner and its seeds
  wallClock,         \* Date.now(), ms
  firstScenario,     \* per seed, the scenario the first generate(seed) returned
  lastGenerate,      \* the last generate call: its seed argument and scenario
  savedScenarios     \* the scenario files of outputDir, in the order written

probVars == << pair, probability, rawDraw, ranged, flight, flown, batch >>

genVars == << wallClock, firstScenario, lastGenerate, savedScenarios >>

vars == << engineVars, probVars, genVars >>

\* no probability computed
NoProbability == 0 - 1

NoPair ==
  [ interceptor |->
      WithKinematics(createInterceptor(NULL, DEFAULT_INTERCEPTOR_CONFIG),
                     NoGeo.interceptorVelocity, 0),
    target |-> WithKinematics(NoHostile, NoGeo.targetVelocity, 0) ]

\* the seeds generate is called with
Seeds == { 0, 7, 19 }

\* the function-level runs have not started
DrawIdle == rawDraw = [ hi |-> 0, lo |-> 0 ] /\ ranged = << >>

KinIdle == flight = << >> /\ flown = << >>

BatchIdle == batch = << >>

ProbIdle ==
  /\ pair = NoPair /\ probability = NoProbability
  /\ DrawIdle /\ KinIdle /\ BatchIdle

GenIdle ==
  /\ wallClock = 1
  /\ firstScenario = [ seed \in Seeds |-> << >> ]
  /\ lastGenerate = << >>
  /\ savedScenarios = << >>

NoTimer == 0

\* World times (ms) at which engage commands reach the engine.  The engine
\* reads the launch time only as zero or not (launchTime || 0) and through
\* currentTime - launchTime > LaunchDelay: time 0, a later time before the
\* first launch completes, a time at which the first interceptor is engaging
\* and can succeed while the second is still launching, and a time after the
\* first engagement has resolved and its interceptor can be back in STANDBY;
\* and the last tick of a run of the experiment runner, whose radar callback
\* issues the engage commands.
EngageTimes ==
  { 0, tickInterval, LaunchDelay + 2 * tickInterval,
    LaunchDelay + 4 * tickInterval, MaxRunnerTicks * tickInterval }

SpeedMultipliers == { 1, 10 }

HostileIdPool == << "H-1", "H-2", "H-3", "H-4" >>

InterceptorIdPool ==
  << "INT-0001", "INT-0002", "INT-0003", "INT-0004", "INT-0005" >>

\* an id of no hostile of the world (a stale id, or a radar false alarm)
UnknownDroneId == "FA-1"

\* an id of no interceptor of the world
UnknownInterceptorId == "INT-FFFF"

Last(op) ==
  [ op |-> op, droneId |-> NULL, interceptorId |-> NULL, ret |-> NULL,
    geo |-> NoGeo, interceptResult |-> NULL, detections |-> << >>,
    deltaTime |-> 0, loader |-> NULL, message |-> << >> ]

\* a scenario id (number | string) is a record with the one field of its type
NumberId(n) == [ number |-> n ]

StringId(s) == [ string |-> s ]

\* typeof scenarioId === 'number'
IsNumber(scenarioId) == "number" \in DOMAIN scenarioId

StatusEvent(t, running, hostiles, ints) ==
  [ type |-> "simulation_status", timestamp |-> t, sim_time |-> t,
    is_running |-> running, drone_count |-> Len(hostiles),
    interceptor_count |-> Len(ints) ]

ControlLog(t, action) ==
  [ event |-> "simulation_control", timestamp |-> t, action |-> action ]

\* DEFAULT_RADAR_CONFIG, in the units of the generator: scan rate 1 per
\* second, range 1000 m, noise 10 m and 2 degrees, false alarms 1.5 %,
\* misses 7 %
DEFAULT_RADAR_CONFIG ==
  [ scan_rate |-> 10000, max_range |-> 1000,
    radial_noise_sigma |-> 100000, azimuth_noise_sigma |-> 20000,
    false_alarm_rate |-> 150, miss_probability |-> 700 ]

\* new RadarSensor(basePosition, config): the configuration the instance is
\* made with, and whether scan() has been called on it
RadarSensor(config) == [ config |-> config, scanned |-> FALSE ]

\* the engine as its constructor leaves it; auto tells whether the onEvent
\* callback it is given is the experiment runner's, engaging on detections
EngineStart(auto) ==
  /\ time = 0
  /\ isRunning = FALSE
  /\ speedMultiplier = 1
  /\ tickTimer = NoTimer
  /\ liveTimers = 0
  /\ hostileDrones = << >>
  /\ interceptors = << >>
  /\ eventQueue = << >>
  /\ evadingDrones = { }
  /\ currentScenarioId = NumberId(1)
  /\ autoEngage = auto
  /\ radarConfig = DEFAULT_RADAR_CONFIG
  /\ radarSensor = RadarSensor(DEFAULT_RADAR_CONFIG)
  /\ pc = "idle"
  /\ idx = 0
  /\ crashed = FALSE
  /\ last = Last("constructor")
  /\ events = << >>
  /\ log = << >>

EngineInit == EngineStart(FALSE)

Init == EngineInit /\ ProbIdle /\ GenIdle

\* commands and timer callbacks run to completion, one at a time
Idle == pc = "idle" /\ ~crashed

\* ---------------------------------------------------------- start / pause
start ==
  /\ Idle
  /\ IF isRunning
     THEN /\ UNCHANGED << isRunning, tickTimer, liveTimers >>
          /\ events' = << >>
          /\ log' = << >>
     ELSE /\ isRunning' = TRUE
          /\ tickTimer' = speedMultiplier
          /\ liveTimers' = liveTimers + 1
          /\ log' = << ControlLog(time, "start") >>
          /\ events' = << StatusEvent(time, TRUE, hostileDrones, interceptors) >>
  /\ last' = Last("start")
  /\ UNCHANGED << probVars, genVars >>
  /\ UNCHANGED << time, speedMultiplier, hostileDrones, interceptors, eventQueue,
                  evadingDrones, currentScenarioId,
                  autoEngage, radarConfig, radarSensor, pc, idx, crashed >>

\* variant of pauseEffect: pause() without its early return
pauseAlways(running, timer, t, hostiles, ints) ==
  [ isRunning |-> FALSE, tickTimer |-> NoTimer,
    cleared |-> IF timer # NoTimer THEN 1 ELSE 0,
    events |-> << StatusEvent(t, FALSE, hostiles, ints) >>,
    log |-> << ControlLog(t, "pause") >> ]

\* variant of pauseEffect: pause() without clearInterval
pauseWithoutClear(running, timer, t, hostiles, ints) ==
  IF ~running
  THEN [ isRunning |-> running, tickTimer |-> timer, cleared |-> 0,
         events |-> << >>, log |-> << >> ]
  ELSE [ isRunning |-> FALSE, tickTimer |-> timer, cleared |-> 0,
         events |-> << StatusEvent(t, FALSE, hostiles, ints) >>,
         log |-> << ControlLog(t, "pause") >> ]

\* the effect of pause() on (isRunning, tickTimer) and what it emits
pauseEffect(running, timer, t, hostiles, ints) ==
  IF ~running
  THEN [ isRunning |-> running, tickTimer |-> timer, cleared |-> 0,
         events |-> << >>, log |-> << >> ]
  ELSE [ isRunning |-> FALSE, tickTimer |-> NoTimer,
         cleared |-> IF timer # NoTimer THEN 1 ELSE 0,
         events |-> << StatusEvent(t, FALSE, hostiles, ints) >>,
         log |-> << ControlLog(t, "pause") >> ]

pause ==
  /\ Idle
  /\ LET p == pauseEffect(isRunning, tickTimer, time, hostileDrones, interceptors)
     IN  /\ isRunning' = p.isRunning
         /\ tickTimer' = p.tickTimer
         /\ liveTimers' = liveTimers - p.cleared
         /\ events' = p.events
         /\ log' = p.log
  /\ last' = Last("pause")
  /\ UNCHANGED << probVars, genVars >>
  /\ UNCHANGED << time, speedMultiplier, hostileDrones, interceptors, eventQueue,
                  evadingDrones, currentScenarioId,
                  autoEngage, radarConfig, radarSensor, pc, idx, crashed >>

\* --------------------------------------------------------------- reset
\* variant of resetEffect: reset() without evadingDrones.clear()
resetKeepingEvading(running, timer, t, hostiles, ints) ==
  LET p == pauseEffect(running, timer, t, hostiles, ints)
  IN  [ isRunning |-> p.isRunning, tickTimer |-> p.tickTimer,
        cleared |-> p.cleared,
        time |-> 0, hostileDrones |-> << >>, interceptors |-> << >>,
        eventQueue |-> << >>, evadingDrones |-> evadingDrones,
        events |-> p.events \o << StatusEvent(0, p.isRunning, << >>, << >>) >>,
        log |-> p.log \o << [ event |-> "scenario_end", timestamp |-> t ] >> ]

\* variant of resetEffect: reset() without its call of pause()
resetWithoutPause(running, timer, t, hostiles, ints) ==
  [ isRunning |-> running, tickTimer |-> timer, cleared |-> 0,
    time |-> 0, hostileDrones |-> << >>, interceptors |-> << >>,
    eventQueue |-> << >>, evadingDrones |-> { },
    events |-> << StatusEvent(0, running, << >>, << >>) >>,
    log |-> << [ event |-> "scenario_end", timestamp |-> t ] >> ]

\* variant of resetEffect: reset() without interceptors.clear()
resetKeepingInterceptors(running, timer, t, hostiles, ints) ==
  LET p == pauseEffect(running, timer, t, hostiles, ints)
  IN  [ isRunning |-> p.isRunning, tickTimer |-> p.tickTimer,
        cleared |-> p.cleared,
        time |-> 0, hostileDrones |-> << >>, interceptors |-> ints,
        eventQueue |-> << >>, evadingDrones |-> { },
        events |-> p.events \o << StatusEvent(0, p.isRunning, << >>, ints) >>,
        log |-> p.log \o << [ event |-> "scenario_end", timestamp |-> t ] >> ]

\* reset(): pause(), endScenario log, clear the world, status event
resetEffect(running, timer, t, hostiles, ints) ==
  LET p == pauseEffect(running, timer, t, hostiles, ints)
  IN  [ isRunning |-> p.isRunning, tickTimer |-> p.tickTimer,
        cleared |-> p.cleared,
        time |-> 0, hostileDrones |-> << >>, interceptors |-> << >>,
        eventQueue |-> << >>, evadingDrones |-> { },
        events |-> p.events \o << StatusEvent(0, p.isRunning, << >>, << >>) >>,
        log |-> p.log \o << [ event |-> "scenario_end", timestamp |-> t ] >> ]

reset ==
  /\ Idle
  /\ LET r == resetEffect(isRunning, tickTimer, time, hostileDrones, interceptors)
     IN  /\ isRunning' = r.isRunning
         /\ tickTimer' = r.tickTimer
         /\ liveTimers' = liveTimers - r.cleared
         /\ time' = r.time
         /\ hostileDrones' = r.hostileDrones
         /\ interceptors' = r.interceptors
         /\ eventQueue' = r.eventQueue
         /\ evadingDrones' = r.evadingDrones
         /\ events' = r.events
         /\ log' = r.log
  /\ last' = Last("reset")
  /\ UNCHANGED << probVars, genVars >>
  /\ UNCHANGED << speedMultiplier, currentScenarioId,
                  autoEngage, radarConfig, radarSensor, pc, idx, crashed >>

\* ---------------------------------------------------- setSpeedMultiplier
setSpeedMultiplier(multiplier) ==
  /\ Idle
  /\ speedMultiplier' = multiplier
  /\ tickTimer' = IF isRunning /\ tickTimer # NoTimer THEN multiplier ELSE tickTimer
  /\ liveTimers' = IF isRunning /\ tickTimer # NoTimer
                   THEN (liveTimers - 1) + 1 ELSE liveTimers
  /\ log' = << [ event |-> "simulation_control", timestamp |-> time,
                 action |-> "speed_change", speed_multiplier |-> multiplier ] >>
  /\ events' = << >>
  /\ last' = Last("setSpeedMultiplier")
  /\ UNCHANGED << probVars, genVars >>
  /\ UNCHANGED << time, isRunning, hostileDrones, interceptors, eventQueue,
                  evadingDrones, currentScenarioId,
                  autoEngage, radarConfig, radarSensor, pc, idx, crashed >>

\* --------------------------------------------------------- loadScenario
\* The ids createInterceptor draws (INT- and four hex digits of a uuid), up to
\* renaming: each draw repeats an earlier id or is the next unused one.
IdDraws(n) ==
  { s \in [1..n -> 1..n] :
      /\ s[1] = 1
      /\ \A k \in 2..n : \E j \in 1..(k - 1) : s[k] <= s[j] + 1 }

RECURSIVE SetInterceptors(_, _, _)
\* interceptors.set(interceptor.id, interceptor) for draws k..Len(draws)
SetInterceptors(m, draws, k) ==
  IF k > Len(draws)
  THEN m
  ELSE SetInterceptors(
         MapSet(m, InterceptorIdPool[draws[k]],
                createInterceptor(InterceptorIdPool[draws[k]],
                                  DEFAULT_INTERCEPTOR_CONFIG)),
         draws, k + 1)

\* the hostiles of a built-in scenario: createHostileDrone gives each a new id
BuiltinHostiles(n) ==
  [ k \in 1..n |-> createHostileDrone(HostileIdPool[k], DEFAULT_HOSTILE_DRONE_CONFIG) ]

\* number of hostiles and of createInterceptor calls of scenarios 1, 2, 3
ScenarioHostiles(id) == IF id = 2 THEN 4 ELSE 3

ScenarioInterceptors(id) == IF id = 2 THEN 3 ELSE 2

\* variant of BuiltinScenario: the default is scenario 2
BuiltinScenarioDefaultTwo(scenarioId) ==
  IF IsNumber(scenarioId) /\ scenarioId.number \in { 1, 2, 3 }
  THEN scenarioId.number
  ELSE 2

\* the switch of loadScenario: 1, 2, 3, and scenario 1 for any other number;
\* scenario 1 also for a string id whose generated scenario is not found
BuiltinScenario(scenarioId) ==
  IF IsNumber(scenarioId) /\ scenarioId.number \in { 1, 2, 3 }
  THEN scenarioId.number
  ELSE 1

BuiltinLoaders == << "loadScenario1", "loadScenario2", "loadScenario3" >>

\* generator.loadScenario(id): the parsed file, or nothing when there is none.
\* JSON.stringify and JSON.parse give back the numbers, strings, booleans and
\* lists a scenario is made of.
loadSavedScenario(files, id) ==
  IF MapHas(files, id) THEN << MapGet(files, id) >> ELSE << >>

\* the id of generated drone i: DRONE- and the letter of i % 26; the suffix
\* Math.floor(i / 26) || '' is empty for the at most 15 drones of a scenario
DroneNames ==
  << "DRONE-A", "DRONE-B", "DRONE-C", "DRONE-D", "DRONE-E", "DRONE-F",
     "DRONE-G", "DRONE-H", "DRONE-I", "DRONE-J", "DRONE-K", "DRONE-L",
     "DRONE-M", "DRONE-N", "DRONE-O" >>

\* loadGeneratedScenario: every drone descriptor, hostile or not, becomes a
\* hostile under the descriptor's id; the evasion strength goes from the
\* generator's fixed-point units to hundredths
GeneratedHostiles(drones) ==
  [ k \in 1..Len(drones) |->
      createHostileDrone(
        DroneNames[drones[k].id[2] + 1],
        [ evasion_maneuver_strength |->
            drones[k].config.evasion_maneuver_strength \div 100 ]) ]

\* variant of ScenarioLoad: the built-in loaders apply DEFAULT_RADAR_CONFIG
ScenarioLoadDefaultRadar(scenarioId, files) ==
  LET found == IF IsNumber(scenarioId)
               THEN << >>
               ELSE loadSavedScenario(files, scenarioId.string)
  IN  IF Len(found) > 0
      THEN [ loader |-> "loadGeneratedScenario",
             radar |-> << found[1].radar_config >>,
             hostiles |-> GeneratedHostiles(found[1].drones),
             interceptorCount |-> found[1].interceptor_count ]
      ELSE [ loader |-> BuiltinLoaders[BuiltinScenario(scenarioId)],
             radar |-> << DEFAULT_RADAR_CONFIG >>,
             hostiles |->
               BuiltinHostiles(ScenarioHostiles(BuiltinScenario(scenarioId))),
             interceptorCount |->
               ScenarioInterceptors(BuiltinScenario(scenarioId)) ]

\* what loadScenario runs after reset(): the loader, the radar configuration
\* it applies (none for the built-in loaders), the hostiles it sets and the
\* number of its createInterceptor calls
ScenarioLoad(scenarioId, files) ==
  LET found == IF IsNumber(scenarioId)
               THEN << >>
               ELSE loadSavedScenario(files, scenarioId.string)
  IN  IF Len(found) > 0
      THEN [ loader |-> "loadGeneratedScenario",
             radar |-> << found[1].radar_config >>,
             hostiles |-> GeneratedHostiles(found[1].drones),
             interceptorCount |-> found[1].interceptor_count ]
      ELSE [ loader |-> BuiltinLoaders[BuiltinScenario(scenarioId)],
             radar |-> << >>,
             hostiles |->
               BuiltinHostiles(ScenarioHostiles(BuiltinScenario(scenarioId))),
             interceptorCount |->
               ScenarioInterceptors(BuiltinScenario(scenarioId)) ]

\* the scenario the engagement runs load
ScenarioIds == { NumberId(1) }

\* the events and log entries of loadScenario after those of its reset()
loadScenarioEmits(scenarioId, running, hs, is) ==
  [ events |-> << StatusEvent(0, running, hs, is) >>,
    log |-> << [ event |-> "scenario_start", timestamp |-> 0,
                 scenario_id |-> scenarioId,
                 drone_count |-> Len(hs),
                 interceptor_count |-> Len(is) ] >> \o
            [ k \in 1..Len(hs) |->
                [ event |-> "drone_spawned", timestamp |-> 0,
                  drone_id |-> hs[k].id ] ] ]

loadScenario(scenarioId) ==
  /\ Idle
  /\ LET r == resetEffect(isRunning, tickTimer, time, hostileDrones, interceptors)
         ld == ScenarioLoad(scenarioId, savedScenarios)
     IN  \E draws \in IdDraws(ld.interceptorCount) :
           LET e == loadScenarioEmits(scenarioId, r.isRunning, ld.hostiles,
                                      SetInterceptors(<< >>, draws, 1))
           IN  /\ isRunning' = r.isRunning
               /\ tickTimer' = r.tickTimer
               /\ liveTimers' = liveTimers - r.cleared
               /\ time' = r.time
               /\ eventQueue' = r.eventQueue
               /\ evadingDrones' = r.evadingDrones
               /\ hostileDrones' = ld.hostiles
               /\ interceptors' = SetInterceptors(<< >>, draws, 1)
               /\ events' = r.events \o e.events
               /\ log' = r.log \o e.log
               /\ last' = [ Last("loadScenario") EXCEPT !.loader = ld.loader ]
               /\ radarConfig' =
                    IF ld.radar # << >> THEN ld.radar[1] ELSE radarConfig
               /\ radarSensor' =
                    IF ld.radar # << >>
                    THEN RadarSensor(ld.radar[1]) ELSE radarSensor
  /\ currentScenarioId' = scenarioId
  /\ UNCHANGED << probVars, genVars >>
  /\ UNCHANGED << speedMultiplier, autoEngage, pc, idx, crashed >>

\* -------------------------------------------------- handleEngageCommand
\* state === 'IDLE' || state === 'STANDBY'
IsStandby(interceptor) ==
  interceptor.state = "IDLE" \/ interceptor.state = "STANDBY"

\* variant of FirstStandby: the forEach without its "&& !interceptor" keeps the
\* last interceptor in STANDBY
LastStandby(ints) ==
  IF \E i \in 1..Len(ints) : IsStandby(ints[i])
  THEN CHOOSE i \in 1..Len(ints) :
         /\ IsStandby(ints[i])
         /\ \A j \in (i + 1)..Len(ints) : ~IsStandby(ints[j])
  ELSE 0

\* The interceptor the forEach of handleEngageCommand keeps: the first one in
\* STANDBY (or IDLE) in insertion order; 0 when there is none.
FirstStandby(ints) ==
  IF \E i \in 1..Len(ints) : IsStandby(ints[i])
  THEN CHOOSE i \in 1..Len(ints) :
         /\ IsStandby(ints[i])
         /\ \A j \in 1..(i - 1) : ~IsStandby(ints[j])
  ELSE 0

\* variant of SelectInterceptor: a named interceptor that is missing or busy
\* gives way to the first one in STANDBY
SelectInterceptorOrFirst(ints, interceptorId) ==
  IF /\ interceptorId # NULL
     /\ MapHas(ints, interceptorId)
     /\ IsStandby(MapGet(ints, interceptorId))
  THEN MapIndex(ints, interceptorId)
  ELSE FirstStandby(ints)

\* index of the interceptor an engage command selects; 0 for undefined
SelectInterceptor(ints, interceptorId) ==
  IF interceptorId # NULL
  THEN IF MapHas(ints, interceptorId) THEN MapIndex(ints, interceptorId) ELSE 0
  ELSE FirstStandby(ints)

\* variant of TargetRejected: only a missing target is rejected
TargetRejectedIfMissing(hostiles, droneId) ==
  ~MapHas(hostiles, droneId)

\* variant of InterceptorRejected: only a missing interceptor is rejected
InterceptorRejectedIfMissing(ints, sel) ==
  sel = 0

\* if (!target || target.isNeutralized) return false
TargetRejected(hostiles, droneId) ==
  ~MapHas(hostiles, droneId) \/ MapGet(hostiles, droneId).isNeutralized

\* if (!interceptor) return false; if (state is not IDLE or STANDBY) return false
InterceptorRejected(ints, sel) ==
  sel = 0 \/ ~IsStandby(ints[sel])

\* private defaultGuidanceMode: GuidanceMode = 'PN'; none of the commands of
\* the websocket server calls setDefaultGuidanceMode
defaultGuidanceMode == "PN"

\* method: LogEvents.InterceptMethod = 'RAM' -- the default of the parameter,
\* taken when the argument is undefined
MethodOrDefault(method) == IF method = NULL THEN "RAM" ELSE method

\* guidanceMode || this.defaultGuidanceMode
effectiveGuidanceMode(guidanceMode) ==
  IF guidanceMode = NULL THEN defaultGuidanceMode ELSE guidanceMode

\* handleEngageCommand(droneId, interceptorId, issuedBy, method, guidanceMode)
\* at world time now: the return value, the interceptor map and the log
\* entries written.  launchInterceptor takes the interceptor, the target and
\* the time; the guidance mode in effect is what the log entry records.
handleEngageCommand(hostiles, ints, now, droneId, interceptorId, issuedBy, method, guidanceMode) ==
  LET failed == [ ret |-> FALSE, interceptors |-> ints, log |-> << >> ]
      sel == SelectInterceptor(ints, interceptorId)
  IN  IF TargetRejected(hostiles, droneId) THEN failed
      ELSE IF InterceptorRejected(ints, sel) THEN failed
      ELSE LET launched == launchInterceptor(ints[sel], droneId, now)
           IN  [ ret |-> TRUE,
                 interceptors |-> MapSet(ints, launched.id, launched),
                 log |-> << [ event |-> "engage_command", timestamp |-> now,
                              drone_id |-> droneId,
                              method |-> MethodOrDefault(method),
                              guidance_mode |->
                                effectiveGuidanceMode(guidanceMode),
                              interceptor_id |-> launched.id,
                              issued_by |-> issuedBy ],
                            [ event |-> "interceptor_spawned", timestamp |-> now,
                              interceptor_id |-> launched.id,
                              target_id |-> droneId ] >> ]

\* an engage command arriving from the command surface
engage(droneId, interceptorId) ==
  /\ Idle
  /\ time \in EngageTimes
  /\ LET r == handleEngageCommand(hostileDrones, interceptors, time,
                                  droneId, interceptorId, "user", NULL, NULL)
     IN  /\ interceptors' = r.interceptors
         /\ log' = r.log
         /\ last' = [ Last("handleEngageCommand") EXCEPT
                        !.droneId = droneId, !.interceptorId = interceptorId,
                        !.ret = r.ret ]
  /\ events' = << >>
  /\ UNCHANGED << probVars, genVars >>
  /\ UNCHANGED << time, isRunning, speedMultiplier, tickTimer, liveTimers,
                  hostileDrones,
                  eventQueue, evadingDrones, currentScenarioId,
                  autoEngage, radarConfig, radarSensor, pc,
                  idx, crashed >>

\* ------------------------------------------------------------------ tick
\* Hostile flight model (updateHostileDrone): a neutralized drone is left as
\* it is; otherwise evasion is on or off as the approach of a threatening
\* interceptor (PURSUING or ENGAGING) decides, and isNeutralized is not
\* written.  The approach followed is that of an interceptor bound to the
\* drone: the engine reads isEvading of an interceptor's target only.
Threatening(ints, drone) ==
  \E i \in 1..Len(ints) :
    ints[i].state \in { "PURSUING", "ENGAGING" } /\ ints[i].targetId = drone.id

updateHostileDrone(drone, ints, evade) ==
  IF drone.isNeutralized
  THEN drone
  ELSE [drone EXCEPT !.isEvading = evade /\ Threatening(ints, drone)]

\* the evasion outcomes of one hostile pass
EvadeChoices(hostiles, ints) ==
  { f \in [1..Len(hostiles) -> BOOLEAN] :
      \A i \in 1..Len(hostiles) :
        f[i] => (~hostiles[i].isNeutralized /\ Threatening(ints, hostiles[i])) }

\* Math.floor(time * 2) % 2 === 0, time in ms
DroneStateDue(t) == (t \div 500) % 2 = 0

\* variant of deltaTime: the step scaled by the speed multiplier
\* the world time at which the run ends
TickLimit ==
  (IF autoEngage THEN MaxRunnerTicks ELSE MaxTicks) * tickInterval

deltaTimeScaled == tickInterval * speedMultiplier

\* const deltaTime = this.world.tickInterval / 1000, in ms
deltaTime == tickInterval

\* variant of afterHostilePass: the radar scan placed before the interceptor
\* pass, which is then never reached
afterHostilePassToRadar(ints) == "radar"

\* where tick() continues after its hostile pass: the forEach over the
\* interceptors, or the radar scan when there is none
afterHostilePass(ints) == IF Len(ints) = 0 THEN "radar" ELSE "interceptors"

\* pass 1 of tick(): time advances, every hostile is updated in map order.
\* log keeps the evasion entries; the track_update entries, written for one
\* update in ten at random, are not kept.
tickHostiles ==
  /\ Idle
  /\ liveTimers > 0
  /\ time + deltaTime <= TickLimit
  /\ time' = time + deltaTime
  /\ \E f \in EvadeChoices(hostileDrones, interceptors) :
       LET updated == [ i \in 1..Len(hostileDrones) |->
                          updateHostileDrone(hostileDrones[i], interceptors, f[i]) ]
           started == { i \in 1..Len(hostileDrones) :
                          ~hostileDrones[i].isEvading /\ updated[i].isEvading }
           ended == { i \in 1..Len(hostileDrones) :
                        hostileDrones[i].isEvading /\ ~updated[i].isEvading }
       IN  /\ hostileDrones' = updated
           /\ evadingDrones' =
                (evadingDrones \cup { updated[i].id : i \in started })
                  \ { updated[i].id : i \in ended }
           /\ log' = SelectSeq(
                       [ i \in 1..Len(updated) |->
                           [ event |-> IF i \in started THEN "evade_start"
                                       ELSE IF i \in ended THEN "evade_end"
                                       ELSE NULL,
                             timestamp |-> time', drone_id |-> updated[i].id ] ],
                       LAMBDA e : e.event # NULL)
           /\ events' =
                IF DroneStateDue(time')
                THEN [ i \in 1..Len(updated) |->
                         [ type |-> "drone_state_update", timestamp |-> time',
                           drone_id |-> updated[i].id,
                           is_evading |-> updated[i].isEvading ] ]
                ELSE << >>
  /\ pc' = afterHostilePass(interceptors)
  /\ idx' = IF pc' = "interceptors" THEN 1 ELSE 0
  /\ last' = [ Last("tickHostiles") EXCEPT !.deltaTime = deltaTime ]
  /\ UNCHANGED << probVars, genVars >>
  /\ UNCHANGED << isRunning, speedMultiplier, tickTimer, liveTimers, interceptors,
                  eventQueue,
                  currentScenarioId,
                  autoEngage, radarConfig, radarSensor, crashed >>

\* variant of handleInterceptResult: a SUCCESS deletes the target from the map
handleInterceptResultRemoving(hostiles, interceptor, target, result, now) ==
  IF target.id = NULL
  THEN [ threw |-> TRUE, hostileDrones |-> hostiles,
         events |-> << >>, log |-> << >> ]
  ELSE [ threw |-> FALSE,
         hostileDrones |->
           IF result = "SUCCESS"
           THEN SelectSeq(hostiles, LAMBDA h : h.id # target.id)
           ELSE hostiles,
         events |-> << [ type |-> "intercept_result", timestamp |-> now,
                         interceptor_id |-> interceptor.id,
                         target_id |-> target.id, result |-> result ] >>,
         log |-> << [ event |-> "intercept_result", timestamp |-> now,
                      interceptor_id |-> interceptor.id,
                      target_id |-> target.id, result |-> result,
                      engagement_duration |->
                        IF interceptor.launchTime # NoTime
                           /\ interceptor.launchTime # 0
                        THEN now - interceptor.launchTime
                        ELSE 0 ] >> ]

\* handleInterceptResult(interceptor, target, result) at world time now.
\* A null target makes target.id throw before anything is emitted.
handleInterceptResult(hostiles, interceptor, target, result, now) ==
  IF target.id = NULL
  THEN [ threw |-> TRUE, hostileDrones |-> hostiles,
         events |-> << >>, log |-> << >> ]
  ELSE [ threw |-> FALSE,
         hostileDrones |->
           IF result = "SUCCESS"
           THEN MapSet(hostiles, target.id,
                       [ id |-> target.id, isNeutralized |-> TRUE,
                         isEvading |-> target.isEvading,
                         config |-> target.config ])
           ELSE hostiles,
         events |-> << [ type |-> "intercept_result", timestamp |-> now,
                         interceptor_id |-> interceptor.id,
                         target_id |-> target.id, result |-> result ] >>,
         log |-> << [ event |-> "intercept_result", timestamp |-> now,
                      interceptor_id |-> interceptor.id,
                      target_id |-> target.id, result |-> result,
                      engagement_duration |->
                        IF interceptor.launchTime # NoTime
                           /\ interceptor.launchTime # 0
                        THEN now - interceptor.launchTime
                        ELSE 0 ] >> ]

\* the target the interceptor pass hands to updateInterceptor
TargetOf(hostiles, interceptor) ==
  IF interceptor.targetId # NULL /\ MapHas(hostiles, interceptor.targetId)
  THEN MapGet(hostiles, interceptor.targetId)
  ELSE NoHostile

\* The kinematic inputs one update can meet: distances below and at each
\* threshold the branch taken compares, a sample just below and at the
\* success probability, the others left at NoGeo.
DistancesToTarget(interceptor) ==
  LET r == interceptor.config.engagement_range
  IN  { r - 1, r, 2 * r - 1, 2 * r }

InterceptorVelocities ==
  { [ vx |-> SpeedMid, vy |-> 0 ],
    [ vx |-> SpeedHigh, vy |-> 8 ] }

InterceptorAltitudes == { AltThreshold + 1 }

Samples(p) == { p - 1, p }

GeoInputs(interceptor, target) ==
  IF interceptor.state \in { "PURSUING", "ENGAGING" }
     /\ target.id # NULL /\ ~target.isNeutralized
  THEN { g \in
           [ distToTarget : DistancesToTarget(interceptor),
             distToBase : { 0 }, sample : { 0 },
             interceptorVelocity : { NoGeo.interceptorVelocity },
             interceptorAltitude : { 0 },
             targetVelocity : { NoGeo.targetVelocity },
             targetAltitude : { 0 } ] :
           interceptor.state = "PURSUING"
             \/ g.distToTarget >= interceptor.config.engagement_range }
       \cup
       UNION {
         { [ k EXCEPT !.sample = s ] :
             s \in Samples(SuccessProb(interceptor, target, k)) } :
         k \in { g \in
                   [ distToTarget : DistancesToTarget(interceptor),
                     distToBase : { 0 }, sample : { 0 },
                     interceptorVelocity : InterceptorVelocities,
                     interceptorAltitude : InterceptorAltitudes,
                     targetVelocity : { NoGeo.targetVelocity },
                     targetAltitude : { 0 } ] :
                   /\ interceptor.state = "ENGAGING"
                   /\ g.distToTarget < interceptor.config.engagement_range } }
  ELSE IF interceptor.state = "RETURNING"
  THEN { [ NoGeo EXCEPT !.distToBase = d ] :
           d \in { ArrivalRadius - 1, ArrivalRadius } }
  ELSE { NoGeo }

\* pass 2 of tick(), one interceptor: update, store, handle the result, emit
tickInterceptor ==
  /\ ~crashed
  /\ pc = "interceptors"
  /\ LET interceptor == interceptors[idx]
         target == TargetOf(hostileDrones, interceptor)
     IN  \E geo \in GeoInputs(interceptor, target) :
           LET u == updateInterceptor(interceptor, target, time, geo)
               h == IF u.interceptResult # NULL
                    THEN handleInterceptResult(hostileDrones, u.interceptor,
                                               target, u.interceptResult, time)
                    ELSE [ threw |-> FALSE, hostileDrones |-> hostileDrones,
                           events |-> << >>, log |-> << >> ]
           IN  /\ interceptors' = MapSet(interceptors, interceptor.id, u.interceptor)
               /\ hostileDrones' = h.hostileDrones
               /\ crashed' = h.threw
               /\ log' = h.log
               /\ events' =
                    IF h.threw THEN << >>
                    ELSE h.events \o
                         << [ type |-> "interceptor_update", timestamp |-> time,
                              interceptor_id |-> u.interceptor.id,
                              target_id |-> u.interceptor.targetId,
                              state |-> u.interceptor.state ] >>
               /\ last' = [ Last("tickInterceptor") EXCEPT
                              !.deltaTime = deltaTime,
                              !.interceptorId = interceptor.id,
                              !.geo = geo,
                              !.interceptResult = u.interceptResult ]
  /\ pc' = IF idx = Len(interceptors) THEN "radar" ELSE "interceptors"
  /\ idx' = IF idx = Len(interceptors) THEN 0 ELSE idx + 1
  /\ UNCHANGED << probVars, genVars >>
  /\ UNCHANGED << time, isRunning, speedMultiplier, tickTimer, liveTimers,
                  eventQueue,
                  evadingDrones, currentScenarioId,
                  autoEngage, radarConfig, radarSensor >>

\* Radar scan (RadarSensor.scan): the detections one scan returns, in map
\* order, of hostiles that are not neutralized, then a false alarm or none.
RadarScans(hostiles) ==
  { SelectSeq([ i \in 1..Len(hostiles) |->
                  IF i \in S THEN hostiles[i].id ELSE NULL ],
              LAMBDA d : d # NULL)
      \o (IF fa THEN << UnknownDroneId >> ELSE << >>) :
    S \in SUBSET { i \in 1..Len(hostiles) : ~hostiles[i].isNeutralized },
    fa \in BOOLEAN }

RECURSIVE OnRadarDetections(_, _, _, _, _)
\* the experiment runner's onEvent callback over the detections k..Len(dets)
\* that are within its engage distance: handleEngageCommand(id, undefined, 'auto')
OnRadarDetections(hostiles, ints, now, dets, k) ==
  IF k > Len(dets)
  THEN [ interceptors |-> ints, log |-> << >> ]
  ELSE LET r == handleEngageCommand(hostiles, ints, now, dets[k], NULL, "auto",
                                    NULL, NULL)
           rest == OnRadarDetections(hostiles, r.interceptors, now, dets, k + 1)
       IN  [ interceptors |-> rest.interceptors, log |-> r.log \o rest.log ]

\* the periodic status event of pass 4, every 5 s of world time.  On exact
\* time it comes with the tick that reaches 5 s; the code's sum of fifty
\* 0.1 stays below 5, so there it comes one tick later, in the same pass.
StatusDue(t) ==
  ((t \div 1000) % 5 = 0) /\ (t % 1000 < tickInterval)

\* passes 3 and 4 of tick(): radar scan with its callbacks, status event
tickRadar ==
  /\ ~crashed
  /\ pc = "radar"
  /\ \E dets \in (IF autoEngage /\ time \in EngageTimes
                   THEN RadarScans(hostileDrones) ELSE { << >> }) :
       /\ LET r == OnRadarDetections(hostileDrones, interceptors, time, dets, 1)
          IN  /\ interceptors' = r.interceptors
              /\ log' = r.log
              /\ events' =
                   IF StatusDue(time)
                   THEN << StatusEvent(time, isRunning, hostileDrones,
                                       r.interceptors) >>
                   ELSE << >>
       /\ last' = [ Last("tickRadar") EXCEPT !.detections = dets ]
  /\ radarSensor' = [ radarSensor EXCEPT !.scanned = TRUE ]
  /\ pc' = "idle"
  /\ idx' = 0
  /\ UNCHANGED << probVars, genVars >>
  /\ UNCHANGED << time, isRunning, speedMultiplier, tickTimer, liveTimers,
                  hostileDrones,
                  eventQueue, evadingDrones, currentScenarioId,
                  autoEngage, radarConfig,
                  crashed >>

\* ------------------------------------------------------------------ Next
\* the ids engage commands name: two hostiles of the scenario and a stale id;
\* the interceptors of the scenario, a stale id, and none (undefined)
DroneIds == { HostileIdPool[1], HostileIdPool[2], UnknownDroneId }

InterceptorIds ==
  { InterceptorIdPool[1], InterceptorIdPool[2], UnknownInterceptorId, NULL }

Next ==
  \/ start
  \/ pause
  \/ reset
  \/ \E m \in SpeedMultipliers : setSpeedMultiplier(m)
  \/ \E id \in ScenarioIds : loadScenario(id)
  \/ \E d \in DroneIds, i \in InterceptorIds : engage(d, i)
  \/ tickHostiles
  \/ tickInterceptor
  \/ tickRadar

Spec == Init /\ [][Next]_vars

\* ============================================== properties of the engine
\* C1: an engage command whose drone id is not in the hostile map, whose
\* hostile is already neutralized, or for which no eligible interceptor in
\* STANDBY exists (the named one is missing or not in STANDBY; with none
\* named, none is in STANDBY) returns false without throwing and changes
\* no interceptor, no hostile and writes no log entry.
C1_EngageFailureChangesNothing ==
  [][ last'.op = "handleEngageCommand" =>
        LET droneId == last'.droneId
            interceptorId == last'.interceptorId
            noTarget ==
              \A k \in 1..Len(hostileDrones) : hostileDrones[k].id # droneId
            neutralized ==
              \E k \in 1..Len(hostileDrones) :
                hostileDrones[k].id = droneId /\ hostileDrones[k].isNeutralized
            noInterceptor ==
              \A k \in 1..Len(interceptors) :
                (interceptorId = NULL \/ interceptors[k].id = interceptorId)
                  => interceptors[k].state # "STANDBY"
        IN  (noTarget \/ neutralized \/ noInterceptor) =>
              /\ last'.ret = FALSE
              /\ crashed' = FALSE
              /\ interceptors' = interceptors
              /\ hostileDrones' = hostileDrones
              /\ log' = << >> ]_vars

\* an engage command naming a neutralized hostile has just failed although an
\* interceptor is in STANDBY
C1_Witness ==
  /\ last.op = "handleEngageCommand"
  /\ last.ret = FALSE
  /\ \E k \in 1..Len(hostileDrones) :
       hostileDrones[k].id = last.droneId /\ hostileDrones[k].isNeutralized
  /\ \E k \in 1..Len(interceptors) :
       /\ interceptors[k].state = "STANDBY"
       /\ last.interceptorId \in { NULL, interceptors[k].id }

\* C2: an engage command succeeds exactly when its target exists, is not
\* neutralized and an eligible interceptor exists; it then returns true and
\* changes exactly one interceptor, the named one or with none named the first
\* in STANDBY in insertion order, from STANDBY to LAUNCHING with targetId the
\* drone id and launchTime the current world time; every other interceptor
\* and every hostile is unchanged.
C2_EngageSuccessLaunchesOne ==
  [][ last'.op = "handleEngageCommand" =>
        LET droneId == last'.droneId
            interceptorId == last'.interceptorId
            targetOk ==
              \E k \in 1..Len(hostileDrones) :
                hostileDrones[k].id = droneId /\ ~hostileDrones[k].isNeutralized
            eligible ==
              { k \in 1..Len(interceptors) :
                  /\ interceptors[k].state = "STANDBY"
                  /\ IF interceptorId # NULL
                     THEN interceptors[k].id = interceptorId
                     ELSE \A j \in 1..(k - 1) : interceptors[j].state # "STANDBY" }
        IN  /\ (last'.ret = TRUE) <=> (targetOk /\ eligible # { })
            /\ (last'.ret = TRUE) =>
                 /\ \E k \in eligible :
                      interceptors' =
                        [ interceptors EXCEPT ![k] =
                            [ @ EXCEPT !.state = "LAUNCHING",
                                       !.targetId = droneId,
                                       !.launchTime = time ] ]
                 /\ hostileDrones' = hostileDrones
                 /\ time' = time ]_vars

\* an engage command naming no interceptor has just launched the second
\* interceptor of the map, the first one being busy
C2_Witness ==
  /\ last.op = "handleEngageCommand"
  /\ last.ret = TRUE
  /\ last.interceptorId = NULL
  /\ Len(interceptors) = 2
  /\ interceptors[1].state # "STANDBY"
  /\ interceptors[2].state = "LAUNCHING"
  /\ interceptors[2].targetId = last.droneId
  /\ interceptors[2].launchTime = time

\* C3: isNeutralized becomes true only when an intercept resolves SUCCESS;
\* once true it stays true through every tick pass and command other than
\* reset and scenario loading, every engage command naming that hostile
\* returns false, and no interceptor becomes bound to it.
C3_NeutralizedIsPermanent ==
  [][ last'.op \notin { "reset", "loadScenario" } =>
        \A k \in 1..Len(hostileDrones) :
          LET id == hostileDrones[k].id
          IN  /\ Len(hostileDrones') = Len(hostileDrones)
              /\ hostileDrones'[k].id = id
              /\ hostileDrones[k].isNeutralized =>
                   /\ hostileDrones'[k].isNeutralized
                   /\ (last'.op = "handleEngageCommand" /\ last'.droneId = id)
                        => last'.ret = FALSE
                   /\ \A j \in 1..Len(interceptors') :
                        interceptors'[j].targetId = id
                          => (j <= Len(interceptors) /\ interceptors[j].targetId = id)
              /\ (~hostileDrones[k].isNeutralized /\ hostileDrones'[k].isNeutralized)
                   => (last'.op = "tickInterceptor"
                       /\ last'.interceptResult = "SUCCESS") ]_vars

\* a hostile neutralized in an earlier tick is still neutralized after a later
\* engage command named it, and no interceptor is bound to it
C3_Witness ==
  /\ last.op = "handleEngageCommand"
  /\ \E k \in 1..Len(hostileDrones) :
       /\ hostileDrones[k].id = last.droneId
       /\ hostileDrones[k].isNeutralized
       /\ \A j \in 1..Len(interceptors) : interceptors[j].targetId # last.droneId
  /\ \E j \in 1..Len(interceptors) :
       interceptors[j].launchTime # NoTime
       /\ time - interceptors[j].launchTime > LaunchDelay

\* C4: outside reset and scenario loading, which replace the interceptors,
\* every change of an interceptor's state is STANDBY->LAUNCHING (by an engage
\* command only), LAUNCHING->PURSUING, PURSUING->ENGAGING, PURSUING->RETURNING,
\* ENGAGING->RETURNING or RETURNING->STANDBY, and no interceptor is ever in
\* NEUTRALIZED.
C4_InterceptorTransitions ==
  [][ /\ \A k \in 1..Len(interceptors') : interceptors'[k].state # "NEUTRALIZED"
      /\ last'.op \notin { "reset", "loadScenario" } =>
           /\ Len(interceptors') = Len(interceptors)
           /\ \A k \in 1..Len(interceptors) :
                LET from == interceptors[k].state
                    to == interceptors'[k].state
                IN  /\ interceptors'[k].id = interceptors[k].id
                    /\ from # to =>
                         << from, to >> \in
                           { << "STANDBY", "LAUNCHING" >>,
                             << "LAUNCHING", "PURSUING" >>,
                             << "PURSUING", "ENGAGING" >>,
                             << "PURSUING", "RETURNING" >>,
                             << "ENGAGING", "RETURNING" >>,
                             << "RETURNING", "STANDBY" >> }
                    /\ (from = "STANDBY" /\ to = "LAUNCHING")
                         => last'.op \in { "handleEngageCommand", "tickRadar" }
                    /\ (from # to /\ from # "STANDBY")
                         => (last'.op = "tickInterceptor"
                             /\ last'.interceptorId = interceptors[k].id) ]_vars

\* an interceptor that was launched has just gone from RETURNING to STANDBY
C4_Witness ==
  /\ last.op = "tickInterceptor"
  /\ last.geo.distToBase = ArrivalRadius - 1
  /\ \E k \in 1..Len(interceptors) :
       /\ interceptors[k].id = last.interceptorId
       /\ interceptors[k].state = "STANDBY"
       /\ interceptors[k].launchTime # NoTime

\* C5: an interceptor enters PURSUING only from LAUNCHING, in its update of a
\* tick whose world time exceeds its launchTime by more than the launch delay
\* of 2 s, and so every interceptor in PURSUING was launched more than 2 s
\* before; this includes a launch at world time 0.
C5_PursuingAfterLaunchDelay ==
  [][ \A k \in 1..Len(interceptors') :
        interceptors'[k].state = "PURSUING" =>
          /\ interceptors'[k].launchTime # NoTime
          /\ time' - interceptors'[k].launchTime > LaunchDelay
          /\ k <= Len(interceptors)
          /\ interceptors[k].id = interceptors'[k].id
          /\ interceptors[k].launchTime = interceptors'[k].launchTime
          /\ interceptors[k].state \in { "LAUNCHING", "PURSUING" }
          /\ interceptors[k].state = "LAUNCHING" =>
               (last'.op = "tickInterceptor"
                /\ last'.interceptorId = interceptors[k].id) ]_vars

\* an interceptor launched at world time 0 has just entered PURSUING, at the
\* first tick after the launch delay
C5_Witness ==
  /\ last.op = "tickInterceptor"
  /\ time = LaunchDelay + tickInterval
  /\ \E k \in 1..Len(interceptors) :
       /\ interceptors[k].id = last.interceptorId
       /\ interceptors[k].state = "PURSUING"
       /\ interceptors[k].launchTime = 0

\* C6: in every reachable state, between ticks and inside one, an interceptor
\* with a non-null targetId is in LAUNCHING, PURSUING or ENGAGING, and an
\* interceptor in STANDBY or RETURNING has targetId null.
C6_TargetIdOnlyWhileBound ==
  \A k \in 1..Len(interceptors) :
    /\ interceptors[k].targetId # NULL
         => interceptors[k].state \in { "LAUNCHING", "PURSUING", "ENGAGING" }
    /\ interceptors[k].state \in { "STANDBY", "RETURNING" }
         => interceptors[k].targetId = NULL

\* an engagement has just resolved: its interceptor is RETURNING, unbound
C6_Witness ==
  /\ last.op = "tickInterceptor"
  /\ last.interceptResult \in { "SUCCESS", "MISS", "EVADED", "ABORTED" }
  /\ \E k \in 1..Len(interceptors) :
       /\ interceptors[k].id = last.interceptorId
       /\ interceptors[k].state = "RETURNING"
       /\ interceptors[k].targetId = NULL

\* C7: an update produces an intercept result only for an interceptor that
\* is in ENGAGING when the update starts.  With the target missing or
\* neutralized the result is ABORTED.  Otherwise, with the distance to the
\* target below engagement_range, the result is SUCCESS when the sample is
\* below the success probability, and the target is then neutralized, else
\* EVADED when the target is evading, else MISS; with the distance at or above
\* engagement_range there is no result and the interceptor stays ENGAGING.
\* A hostile is neutralized by SUCCESS only.
C7_InterceptOutcome ==
  [][ last'.op = "tickInterceptor" =>
        LET interceptor == interceptors[idx]
            after == interceptors'[idx]
            bound ==
              { k \in 1..Len(hostileDrones) :
                  hostileDrones[k].id = interceptor.targetId }
            gone ==
              \A k \in bound : hostileDrones[k].isNeutralized
            geo == last'.geo
            result == last'.interceptResult
        IN  /\ last'.interceptorId = interceptor.id
            /\ interceptor.state # "ENGAGING" =>
                 (result = NULL /\ hostileDrones' = hostileDrones)
            /\ (interceptor.state = "ENGAGING" /\ gone) =>
                 (result = "ABORTED" /\ hostileDrones' = hostileDrones)
            /\ (interceptor.state = "ENGAGING" /\ ~gone) =>
                 \A k \in bound :
                   LET target == hostileDrones[k]
                       p == SuccessProb(interceptor, target, geo)
                   IN  IF geo.distToTarget < interceptor.config.engagement_range
                       THEN /\ result = IF geo.sample < p THEN "SUCCESS"
                                        ELSE IF target.isEvading THEN "EVADED"
                                        ELSE "MISS"
                            /\ hostileDrones'[k].isNeutralized = (result = "SUCCESS")
                            /\ \A j \in 1..Len(hostileDrones) \ { k } :
                                 hostileDrones'[j] = hostileDrones[j]
                            /\ after.state = "RETURNING"
                       ELSE /\ result = NULL
                            /\ after.state = "ENGAGING"
                            /\ hostileDrones' = hostileDrones ]_vars

\* an engagement against an evading target has just resolved EVADED: the
\* sample was not below the success probability
C7_Witness ==
  /\ last.op = "tickInterceptor"
  /\ last.interceptResult = "EVADED"
  /\ last.geo.distToTarget < DEFAULT_INTERCEPTOR_CONFIG.engagement_range
  /\ \E k \in 1..Len(hostileDrones) :
       hostileDrones[k].isEvading /\ ~hostileDrones[k].isNeutralized

\* ================================= calculateInterceptProbability alone
\* Base success rates (hundredths), evasion strengths (hundredths), velocities
\* (m/s) and altitudes (m) of the pairs: values below, at and above every
\* threshold the function compares, and rates and strengths outside [0, 1].
BaseRates == { 0 - 20, 0, 5, 10, 75, 95, 100, 130 }

Strengths == { 0 - 50, 0, 60, 100, 150 }

PairInterceptorVelocities ==
  { [ vx |-> 0, vy |-> 0 ], [ vx |-> SpeedMid, vy |-> 0 ],
    [ vx |-> SpeedMid + 1, vy |-> 0 ], [ vx |-> 18, vy |-> 24 ],
    [ vx |-> SpeedHigh, vy |-> 1 ], [ vx |-> 0, vy |-> 0 - SpeedHigh - 1 ],
    [ vx |-> 0 - SpeedHigh, vy |-> 0 ] }

PairTargetVelocities == { [ vx |-> 0, vy |-> 0 ], [ vx |-> 0 - 1, vy |-> 0 ] }

PairInterceptorAltitudes == { 0, AltThreshold, AltThreshold + 1 }

PairTargetAltitudes == { 0, 2 * AltThreshold + 1 }

Pairs ==
  { [ interceptor |->
        WithKinematics(
          createInterceptor(InterceptorIdPool[1],
                            [ DEFAULT_INTERCEPTOR_CONFIG EXCEPT
                                !.base_success_rate = base ]),
          iv, ia),
      target |->
        WithKinematics(
          [ createHostileDrone(HostileIdPool[1],
                               [ DEFAULT_HOSTILE_DRONE_CONFIG EXCEPT
                                   !.evasion_maneuver_strength = strength ])
              EXCEPT !.isEvading = evading ],
          tv, ta) ] :
      base \in BaseRates, strength \in Strengths, evading \in BOOLEAN,
      iv \in PairInterceptorVelocities, ia \in PairInterceptorAltitudes,
      tv \in PairTargetVelocities, ta \in PairTargetAltitudes }

InitProb ==
  /\ EngineInit
  /\ GenIdle
  /\ pair \in Pairs
  /\ probability = NoProbability
  /\ DrawIdle
  /\ KinIdle
  /\ BatchIdle

\* successProb = calculateInterceptProbability(updated, target)
computeProbability ==
  /\ probability = NoProbability
  /\ probability' = calculateInterceptProbability(pair.interceptor, pair.target)
  /\ UNCHANGED << pair, rawDraw, ranged, flight, flown, batch, engineVars,
                  genVars >>

NextProb == computeProbability

SpecProb == InitProb /\ [][NextProb]_vars

\* C8: for every interceptor/target pair the probability
\* calculateInterceptProbability returns is at least 0.1 and at most 0.95,
\* whatever the base success rate, the evasion strength, the relative speed
\* and the altitude difference.
C8_ProbabilityBounds ==
  probability # NoProbability => (PMin <= probability /\ probability <= PMax)

\* the probability computed from a negative base success rate is 0.1
C8_Witness ==
  /\ probability = PMin
  /\ pair.interceptor.config.base_success_rate < 0

Half == 256 * 256

Word(hi, lo) == [ hi |-> hi, lo |-> lo ]

\* ToUint32 of a non-negative integer
ToWord(n) == Word((n \div Half) % Half, n % Half)

RECURSIVE BitXor(_, _)
BitXor(a, b) ==
  IF a = 0 THEN b
  ELSE IF b = 0 THEN a
  ELSE ((a + b) % 2) + 2 * BitXor(a \div 2, b \div 2)

\* a ^ b
xor(a, b) == Word(BitXor(a.hi, b.hi), BitXor(a.lo, b.lo))

\* a + b, as the bitwise operators read it: modulo 2^32
add(a, b) ==
  Word((a.hi + b.hi + ((a.lo + b.lo) \div Half)) % Half, (a.lo + b.lo) % Half)

\* a >>> n for 0 < n < 16
shr(a, n) ==
  Word(a.hi \div (2^n), ((a.hi % (2^n)) * (2^(16 - n))) + (a.lo \div (2^n)))

\* a | 1
or1(a) == Word(a.hi, IF a.lo % 2 = 0 THEN a.lo + 1 ELSE a.lo)

\* a | 61 : of the six low bits only bit 1 is not set by 61
or61(a) == Word(a.hi, a.lo - (a.lo % 64) + 61 + 2 * ((a.lo \div 2) % 2))

\* the product of two 16-bit numbers
Mul16(a, b) ==
  LET x == (a % 256) * b
      y == (a \div 256) * b
      low == x + ((y % 256) * 256)
  IN  Word(((y \div 256) + (low \div Half)) % Half, low % Half)

\* Math.imul(a, b): the low 32 bits of the product
imul(a, b) ==
  LET p == Mul16(a.lo, b.lo)
  IN  Word((p.hi + Mul16(a.hi, b.lo).lo + Mul16(a.lo, b.hi).lo) % Half, p.lo)

\* ------------------------------------------------------- SeededRandom
\* 0x6D2B79F5
Increment == Word(27947, 31221)

\* new SeededRandom(seed).  The seed field grows by Increment at every draw;
\* the draw reads it through ^ and >>> only, that is modulo 2^32.
SeededRandom(seed) == [ seed |-> ToWord(seed) ]

\* the generator n draws later: seed + n * 0x6D2B79F5 modulo 2^32
after(rng, n) == [ seed |-> add(rng.seed, imul(ToWord(n), Increment)) ]

\* t = Math.imul(t ^ t >>> 15, t | 1)
mixFirst(t) == imul(xor(t, shr(t, 15)), or1(t))

\* t ^= t + Math.imul(t ^ t >>> 7, t | 61)
mixSecond(t) == xor(t, add(t, imul(xor(t, shr(t, 7)), or61(t))))

\* (t ^ t >>> 14) >>> 0
mixLast(t) == xor(t, shr(t, 14))

\* the draw made once the seed field has been advanced to seed
drawn(seed) ==
  [ rng |-> [ seed |-> seed ], value |-> mixLast(mixSecond(mixFirst(seed))) ]

\* next(): the generator after the draw, and the 32-bit numerator of the
\* value returned (value / 4294967296)
next(rng) == drawn(after(rng, 1).seed)

\* Real numbers are kept in fixed point, Fix units to one; of a draw the
\* upper 16 bits enter a real-valued result.
Fix == 100 * 100

\* floor(u * r / 2^16) for a 16-bit u
MulShift(u, r) ==
  (((u \div 256) * r) + (((u % 256) * r) \div 256)) \div 256

\* floor(d * n) + min for the draw d
scaleInt(d, n, min) ==
  [ rng |-> d.rng,
    value |-> (((n * d.value.hi) + ((n * d.value.lo) \div Half)) \div Half) + min ]

\* nextInt(min, max) = floor(next() * (max - min + 1)) + min
nextInt(rng, min, max) == scaleInt(next(rng), max - min + 1, min)

\* variant of nextFloat's arithmetic: d * max + min
scaleFloatFromZero(d, min, max) ==
  [ rng |-> d.rng, value |-> MulShift(d.value.hi, max) + min ]

\* d * (max - min) + min for the draw d
scaleFloat(d, min, max) ==
  [ rng |-> d.rng, value |-> MulShift(d.value.hi, max - min) + min ]

\* nextFloat(min, max) = next() * (max - min) + min ; min, max in Fix units
nextFloat(rng, min, max) == scaleFloat(next(rng), min, max)

\* d < p for the draw d
below(d, p) == [ rng |-> d.rng, value |-> MulShift(d.value.hi, Fix) < p ]

\* chance(probability) = next() < probability ; probability in Fix units
chance(rng, p) == below(next(rng), p)

\* ---------------------------------------------------- ScenarioGenerator
\* seed?: number -- undefined
NoSeed == 0 - 1

\* hostileRatioMin and hostileRatioMax in Fix units
DEFAULT_GENERATOR_CONFIG ==
  [ minDrones |-> 1, maxDrones |-> 15,
    minInterceptors |-> 1, maxInterceptors |-> 5,
    mapRadius |-> 800, minAltitude |-> 30, maxAltitude |-> 200,
    minSpeed |-> 5, maxSpeed |-> 30,
    hostileRatioMin |-> (3 * Fix) \div 10, hostileRatioMax |-> Fix ]

\* Math.PI * 2, in Fix units
TwoPi == 2 * 31416

\* Math.round of a non-negative number in Fix units
Round(x) == (x + (Fix \div 2)) \div Fix

\* The draws of one function are taken from the generator the number of
\* draws before them later, after(rng, k), which is the generator their
\* predecessors leave.
normalized(direct_attack, recon_loiter, evasive, random_walk) ==
  LET total == direct_attack + recon_loiter + evasive + random_walk
  IN  [ direct_attack |-> (direct_attack * Fix) \div total,
        recon_loiter |-> (recon_loiter * Fix) \div total,
        evasive |-> (evasive * Fix) \div total,
        random_walk |-> (random_walk * Fix) \div total ]

generateBehaviorDistribution(rng) ==
  [ rng |-> after(rng, 4),
    value |->
      normalized(nextFloat(rng, Fix \div 10, Fix \div 2).value,
                 nextFloat(after(rng, 1), Fix \div 10, (3 * Fix) \div 10).value,
                 nextFloat(after(rng, 2), Fix \div 10, (3 * Fix) \div 10).value,
                 nextFloat(after(rng, 3), Fix \div 20, Fix \div 5).value) ]

generateRadarConfig(rng) ==
  LET scan_rate == nextFloat(rng, Fix \div 2, 2 * Fix)
      max_range == nextInt(after(rng, 1), 800, 1200)
      radial_noise_sigma == nextFloat(after(rng, 2), 5 * Fix, 20 * Fix)
      azimuth_noise_sigma == nextFloat(after(rng, 3), Fix, 5 * Fix)
      false_alarm_rate ==
        nextFloat(after(rng, 4), Fix \div 200, (3 * Fix) \div 100)
      miss_probability ==
        nextFloat(after(rng, 5), (3 * Fix) \div 100, (15 * Fix) \div 100)
  IN  [ rng |-> after(rng, 6),
        value |->
          [ scan_rate |-> scan_rate.value,
            max_range |-> max_range.value,
            radial_noise_sigma |-> radial_noise_sigma.value,
            azimuth_noise_sigma |-> azimuth_noise_sigma.value,
            false_alarm_rate |-> false_alarm_rate.value,
            miss_probability |-> miss_probability.value ] ]

\* the cumulative comparison of selectBehavior for the draw r
cumulativeChoice(r, dist) ==
  IF r < dist.direct_attack THEN "ATTACK_RUN"
  ELSE IF r < dist.direct_attack + dist.recon_loiter THEN "RECON"
  ELSE IF r < dist.direct_attack + dist.recon_loiter + dist.evasive
  THEN "EVADE"
  ELSE "NORMAL"

\* variant of selectBehavior: the cumulative comparison for every drone
selectBehaviorForAll(rng, dist, isHostile) ==
  [ rng |-> after(rng, 1),
    value |-> cumulativeChoice(MulShift(next(rng).value.hi, Fix), dist) ]

selectBehavior(rng, dist, isHostile) ==
  [ rng |-> after(rng, 1),
    value |->
      IF ~isHostile
      THEN IF chance(rng, (7 * Fix) \div 10).value THEN "RECON" ELSE "NORMAL"
      ELSE cumulativeChoice(MulShift(next(rng).value.hi, Fix), dist) ]

\* One pass of the loop of generateDrones, for index i.  The position is kept
\* as the angle and distance it is computed from (x = cos(angle) * distance,
\* y = sin(angle) * distance); the velocity as its speed and its direction:
\* towards the base or along the tangent at the position angle, or a drawn
\* angle.  target_position is a list holding the position, or empty.

\* the drone literal and the target position, drawn from rng on
droneLiteral(rng, i, isHostile, behavior, angle, distance, altitude, speed, velAngle) ==
  [ rng |-> IF behavior = "RECON" THEN after(rng, 9) ELSE after(rng, 6),
    value |->
      [ id |-> << "DRONE-", i % 26, i \div 26 >>,
        position |->
          [ angle |-> angle, distance |-> distance, altitude |-> altitude ],
        velocity |->
          [ direction |->
              IF behavior \in { "NORMAL", "ATTACK_RUN" } THEN "toBase"
              ELSE IF behavior = "RECON" THEN "tangent" ELSE "angle",
            angle |-> velAngle,
            speed |-> IF behavior = "RECON" THEN speed \div 2 ELSE speed,
            climbRate |-> nextFloat(rng, 0 - 2 * Fix, 2 * Fix).value ],
        behavior |-> behavior,
        is_hostile |-> isHostile,
        config |->
          [ max_speed |-> nextFloat(after(rng, 1), 20 * Fix, 35 * Fix).value,
            cruise_speed |-> speed,
            acceleration |->
              nextFloat(after(rng, 2), 3 * Fix, 10 * Fix).value,
            turn_rate |-> nextFloat(after(rng, 3), 45 * Fix, 120 * Fix).value,
            evasion_trigger_distance |->
              nextFloat(after(rng, 4), 80 * Fix, 150 * Fix).value,
            evasion_maneuver_strength |->
              nextFloat(after(rng, 5), Fix \div 2, Fix).value ],
        target_position |->
          IF behavior = "RECON"
          THEN << [ x |-> nextFloat(after(rng, 6), 0 - 200 * Fix,
                                    200 * Fix).value,
                    y |-> nextFloat(after(rng, 7), 0 - 200 * Fix,
                                    200 * Fix).value,
                    altitude |->
                      nextFloat(after(rng, 8), 100 * Fix, 180 * Fix).value ] >>
          ELSE << >> ] ]

\* the velocity follows the position angle unless the behavior leaves the
\* direction free, and then one more draw gives its angle
droneHeading(rng, i, isHostile, behavior, angle, distance, altitude, speed) ==
  IF behavior \in { "NORMAL", "ATTACK_RUN", "RECON" }
  THEN droneLiteral(rng, i, isHostile, behavior, angle, distance, altitude,
                    speed, angle)
  ELSE droneLiteral(after(rng, 1), i, isHostile, behavior, angle, distance,
                    altitude, speed, nextFloat(rng, 0, TwoPi).value)

\* position and speed, drawn from rng on
dronePlaced(rng, i, isHostile, behavior, config) ==
  droneHeading(after(rng, 4), i, isHostile, behavior,
               nextFloat(rng, 0, TwoPi).value,
               nextFloat(after(rng, 1), 300 * Fix,
                         config.mapRadius * Fix).value,
               nextFloat(after(rng, 2), config.minAltitude * Fix,
                         config.maxAltitude * Fix).value,
               nextFloat(after(rng, 3), config.minSpeed * Fix,
                         config.maxSpeed * Fix).value)

\* the behavior, drawn from rng on for the hostility drawn
droneBehaving(rng, i, isHostile, behaviorDist, config) ==
  dronePlaced(after(rng, 1), i, isHostile,
              selectBehavior(rng, behaviorDist, isHostile).value, config)

generateDrone(rng, i, hostileRatio, behaviorDist, config) ==
  droneBehaving(after(rng, 1), i, chance(rng, hostileRatio).value,
                behaviorDist, config)

RECURSIVE generateDronesFrom(_, _, _, _, _, _)
\* the loop of generateDrones from index i on
generateDronesFrom(rng, i, count, hostileRatio, behaviorDist, config) ==
  IF i >= count
  THEN << >>
  ELSE LET d == generateDrone(rng, i, hostileRatio, behaviorDist, config)
       IN  << d.value >> \o
           generateDronesFrom(d.rng, i + 1, count, hostileRatio, behaviorDist,
                              config)

generateDrones(rng, count, hostileRatio, behaviorDist, config) ==
  generateDronesFrom(rng, 0, count, hostileRatio, behaviorDist, config)

\* variant of estimateDifficulty: the ATTACK_RUN fraction left out of the score
estimateDifficultyWithoutAttack(drones, radar_config) ==
  LET n == Len(drones)
      hostile == Len(SelectSeq(drones, LAMBDA d : d.is_hostile))
      score == Min(3 * Fix, (n * Fix) \div 5)
                 + ((hostile * 2 * Fix) \div n)
                 + (radar_config.radial_noise_sigma \div 20)
                 + (radar_config.miss_probability * 10)
                 + (radar_config.false_alarm_rate * 30)
  IN  Round(Min(10 * Fix, Max(Fix, score)))

\* Math.round(Math.min(10, Math.max(1, score)))
estimateDifficulty(drones, radar_config) ==
  LET n == Len(drones)
      hostile == Len(SelectSeq(drones, LAMBDA d : d.is_hostile))
      attack == Len(SelectSeq(drones, LAMBDA d : d.behavior = "ATTACK_RUN"))
      score == Min(3 * Fix, (n * Fix) \div 5)
                 + ((hostile * 2 * Fix) \div n)
                 + ((attack * 2 * Fix) \div n)
                 + (radar_config.radial_noise_sigma \div 20)
                 + (radar_config.miss_probability * 10)
                 + (radar_config.false_alarm_rate * 30)
  IN  Round(Min(10 * Fix, Max(Fix, score)))

RECURSIVE SumDistances(_, _)
\* the reduce of generate: the sum of sqrt(x^2 + y^2) over drones k..
SumDistances(drones, k) ==
  IF k > Len(drones) THEN 0
  ELSE drones[k].position.distance + SumDistances(drones, k + 1)

\* seed || Date.now(): the fallback taken for every falsy seed, 0 included
actualSeedOrClock(seed, now) ==
  IF seed = NoSeed \/ seed = 0 THEN now ELSE seed

\* seed ?? Date.now()
actualSeed(seed, now) == IF seed = NoSeed THEN now ELSE seed

\* the scenario literal of generate
scenarioLiteral(seed, now, droneCount, interceptorCount, hostileRatio, behaviorDistribution, radar_config, drones) ==
  [ id |-> << "gen_", seed >>,
    name |-> droneCount,
    seed |-> seed,
    created_at |-> now,
    drones |-> drones,
    interceptor_count |-> interceptorCount,
    radar_config |-> radar_config,
    behavior_distribution |-> behaviorDistribution,
    metadata |->
      [ hostile_ratio |-> hostileRatio,
        avg_initial_distance |->
          Round(SumDistances(drones, 1) \div Len(drones)),
        difficulty_estimate |-> estimateDifficulty(drones, radar_config) ] ]

\* the draws of generate from the generator rng, in the order of the code
generateFrom(rng, seed, now, config) ==
  LET droneCount == nextInt(rng, config.minDrones, config.maxDrones).value
      hostileRatio ==
        nextFloat(after(rng, 2), config.hostileRatioMin,
                  config.hostileRatioMax).value
      behaviorDistribution == generateBehaviorDistribution(after(rng, 3)).value
  IN  scenarioLiteral(
        seed, now, droneCount,
        nextInt(after(rng, 1), config.minInterceptors,
                config.maxInterceptors).value,
        hostileRatio, behaviorDistribution,
        generateRadarConfig(after(rng, 7)).value,
        generateDrones(after(rng, 13), droneCount, hostileRatio,
                       behaviorDistribution, config))

\* variant of generate: the generator seeded with the clock, new
\* SeededRandom(Date.now()), whatever seed is given
generateSeededByClock(seed, now, config) ==
  generateFrom(SeededRandom(now), actualSeed(seed, now), now, config)

\* generate(seed) called at wall-clock time now; created_at is the ISO string
\* of now, kept as now
generate(seed, now, config) ==
  generateFrom(SeededRandom(actualSeed(seed, now)), actualSeed(seed, now), now,
               config)

(***************************************************************************)
(* The scenario generator called over time: the wall clock advances between *)
(* calls, and generate is called with any of the seeds, or with none, in    *)
(* any order.  firstScenario keeps what the first call with each seed       *)
(* returned; lastGenerate keeps the latest call and what it returned.       *)
(***************************************************************************)

\* the wall clock is followed for this many milliseconds
MaxClock == 2

\* the arguments generate is called with: a seed, or none
SeedArguments == Seeds \cup { NoSeed }

InitGen == EngineInit /\ ProbIdle /\ GenIdle

\* Date.now() and new Date() read a clock that moves on between calls
advanceClock ==
  /\ wallClock < MaxClock
  /\ wallClock' = wallClock + 1
  /\ UNCHANGED << firstScenario, lastGenerate, savedScenarios >>
  /\ UNCHANGED << engineVars, probVars >>

\* generator.generate(seed) at the current wall-clock time
callGenerate(seed) ==
  LET scenario == generate(seed, wallClock, DEFAULT_GENERATOR_CONFIG)
  IN  /\ lastGenerate' = << [ seed |-> seed, scenario |-> scenario ] >>
      /\ firstScenario' =
           IF seed \in Seeds /\ firstScenario[seed] = << >>
           THEN [ firstScenario EXCEPT ![seed] = << scenario >> ]
           ELSE firstScenario
      /\ UNCHANGED << wallClock, savedScenarios >>
      /\ UNCHANGED << engineVars, probVars >>

NextGen ==
  \/ advanceClock
  \/ \E seed \in SeedArguments : callGenerate(seed)

SpecGen == InitGen /\ [][NextGen]_vars

\* the latest call was made with seed, after an earlier call with it
Repeated(seed) ==
  /\ lastGenerate # << >>
  /\ lastGenerate[1].seed = seed
  /\ firstScenario[seed] # << >>

\* a scenario without the time it was created at
WithoutCreatedAt(scenario) == [ scenario EXCEPT !.created_at = 0 ]

\* C10 (as amended): two calls of generate with the same seed, made at
\* different wall-clock times and in any order relative to other generate
\* calls, return scenarios that are identical in every field except
\* created_at.
C10_SameSeedSameScenarioButCreatedAt ==
  \A seed \in Seeds :
    Repeated(seed) =>
      WithoutCreatedAt(lastGenerate[1].scenario)
        = WithoutCreatedAt(firstScenario[seed][1])

\* C10 (as stated): two calls of generate with the same seed return scenarios
\* that are identical in every field.
C10_SameSeedSameScenario ==
  \A seed \in Seeds :
    Repeated(seed) => lastGenerate[1].scenario = firstScenario[seed][1]

\* a seed is generated again at a later wall-clock time, after another seed
\* has been generated, and the two scenarios carry drones
C10_Witness ==
  \E seed \in Seeds :
    /\ Repeated(seed)
    /\ lastGenerate[1].scenario.created_at
         > firstScenario[seed][1].created_at
    /\ Len(lastGenerate[1].scenario.drones) > 0
    /\ \E other \in Seeds \ { seed } : firstScenario[other] # << >>

\* what the drones of a scenario are made of, in order
DroneEssentials(drones) ==
  [ k \in 1..Len(drones) |->
      [ id |-> drones[k].id, position |-> drones[k].position,
        velocity |-> drones[k].velocity, behavior |-> drones[k].behavior,
        is_hostile |-> drones[k].is_hostile ] ]

\* C11: two calls generate(s) with the same seed s produce the same drone
\* count, the same ordered list of drone ids, positions, velocities,
\* behaviors and hostility flags, the same interceptor count and radar
\* configuration, and the same difficulty estimate.
C11_SameSeedSameDrones ==
  \A seed \in Seeds :
    Repeated(seed) =>
      LET again == lastGenerate[1].scenario
          first == firstScenario[seed][1]
      IN  /\ Len(again.drones) = Len(first.drones)
          /\ DroneEssentials(again.drones) = DroneEssentials(first.drones)
          /\ again.interceptor_count = first.interceptor_count
          /\ again.radar_config = first.radar_config
          /\ again.metadata.difficulty_estimate
               = first.metadata.difficulty_estimate

\* a seed giving several drones is generated a second time, at a later
\* wall-clock time
C11_Witness ==
  \E seed \in Seeds :
    /\ Repeated(seed)
    /\ Len(firstScenario[seed][1].drones) > 1
    /\ lastGenerate[1].scenario.created_at
         = firstScenario[seed][1].created_at + 1

(***************************************************************************)
(* The engine driven by the experiment runner (runSingleExperiment): the   *)
(* onEvent callback calls handleEngageCommand for the radar detections     *)
(* within its engage distance; the runner loads a scenario, sets the speed *)
(* multiplier, starts, and pauses.                                         *)
(***************************************************************************)
InitAuto == EngineStart(TRUE) /\ ProbIdle /\ GenIdle

\* simulation.setSpeedMultiplier(10)
RunnerSpeedMultipliers == { 10 }

\* runSingleExperiment is straight-line code: loadScenario, setSpeedMultiplier,
\* start, a wait of the run's duration while the timer ticks, pause
NextAuto ==
  \/ \E id \in ScenarioIds : Len(hostileDrones) = 0 /\ loadScenario(id)
  \/ \E m \in RunnerSpeedMultipliers :
        /\ Len(hostileDrones) > 0 /\ ~isRunning /\ speedMultiplier # m
        /\ setSpeedMultiplier(m)
  \/ speedMultiplier \in RunnerSpeedMultipliers /\ time = 0 /\ start
  \/ time >= TickLimit - tickInterval /\ pause
  \/ tickHostiles
  \/ tickInterceptor
  \/ tickRadar

SpecAuto == InitAuto /\ [][NextAuto]_vars

\* the steps of tick()
TickOps == { "tickHostiles", "tickInterceptor", "tickRadar" }

\* the interceptor the interceptor pass updates after the step recorded in l
NextInPass(ints, l) ==
  IF l.op = "tickHostiles" THEN 1 ELSE MapIndex(ints, l.interceptorId) + 1

\* C12: within one tick the passes run in the order hostile update ->
\* interceptor update (every interceptor, in map order) -> radar scan ->
\* periodic status event, all at the world time the hostile pass set: an
\* interceptor update follows the hostile pass of its tick, and the radar scan
\* follows the last interceptor update and reports only hostiles that are
\* not neutralized after both passes.
C12_PassOrder ==
  [][ /\ last'.op = "tickHostiles" => pc = "idle" /\ last.op # "tickInterceptor"
      /\ last'.op = "tickInterceptor" =>
            /\ last.op \in { "tickHostiles", "tickInterceptor" }
            /\ time' = time
            /\ NextInPass(interceptors, last) <= Len(interceptors)
            /\ last'.interceptorId
                 = interceptors[NextInPass(interceptors, last)].id
      /\ last'.op = "tickRadar" =>
            /\ time' = time
            /\ hostileDrones' = hostileDrones
            /\ \/ /\ last.op = "tickInterceptor"
                  /\ last.interceptorId = interceptors[Len(interceptors)].id
               \/ last.op = "tickHostiles" /\ Len(interceptors) = 0
            /\ \A k \in 1..Len(last'.detections) :
                  \/ last'.detections[k] = UnknownDroneId
                  \/ /\ MapHas(hostileDrones, last'.detections[k])
                     /\ ~MapGet(hostileDrones, last'.detections[k]).isNeutralized
      /\ (\E k \in 1..Len(events') : events'[k].type = "simulation_status")
           /\ last'.op \in TickOps
           => last'.op = "tickRadar"
    ]_vars

\* a radar scan with detections and the status event close a tick over two
\* interceptors, a hostile having been neutralized
C12_Witness ==
  /\ last.op = "tickRadar"
  /\ Len(last.detections) > 0
  /\ Len(interceptors) = 2
  /\ \E k \in 1..Len(events) : events[k].type = "simulation_status"
  /\ \E i \in 1..Len(hostileDrones) : hostileDrones[i].isNeutralized

\* the log entries a command writes when it is applied
CommandEvents == { "engage_command", "simulation_control", "scenario_start" }

\* C13: commands (engage, control, scenario load) are applied only between
\* ticks: no command is applied while a tick's passes are in progress, the
\* experiment runner's auto-engage callback included.
C13_CommandsBetweenTicks ==
  [][ (\E k \in 1..Len(log') : log'[k].event \in CommandEvents)
        => pc = "idle" ]_vars

\* the world, without the fields setSpeedMultiplier writes
WorldButSpeed ==
  << time, isRunning, hostileDrones, interceptors, eventQueue, evadingDrones,
     currentScenarioId >>

\* C14: every tick advances world time by exactly tickInterval and passes
\* that same deltaTime to the models, for every value of the speed
\* multiplier; setSpeedMultiplier changes only the multiplier and the timer
\* period, never the per-tick step.
C14_TickStepIgnoresSpeed ==
  [][ /\ last'.op = "tickHostiles" =>
            time' = time + tickInterval /\ last'.deltaTime = tickInterval
      /\ last'.op = "tickInterceptor" =>
            time' = time /\ last'.deltaTime = tickInterval
      /\ last'.op = "tickRadar" => time' = time
      /\ last'.op = "setSpeedMultiplier" =>
            /\ UNCHANGED WorldButSpeed
            /\ tickTimer' # tickTimer => isRunning /\ tickTimer' = speedMultiplier'
    ]_vars

\* a tick has run, with an interceptor update, at ten times the speed
C14_Witness ==
  /\ last.op = "tickInterceptor"
  /\ last.deltaTime = tickInterval
  /\ speedMultiplier = 10
  /\ tickTimer = 10
  /\ time = 2 * tickInterval

\* the world and the timer
WorldAndTimer ==
  << time, isRunning, speedMultiplier, tickTimer, hostileDrones, interceptors,
     eventQueue, evadingDrones, currentScenarioId >>

\* C15: start() on a running engine and pause() on a paused engine change no
\* state, create or clear no timer, and emit no status event or log entry.
C15_StartPauseIdempotent ==
  [][ /\ (last'.op = "start" /\ isRunning) =>
            UNCHANGED WorldAndTimer /\ events' = << >> /\ log' = << >>
      /\ (last'.op = "pause" /\ ~isRunning) =>
            UNCHANGED WorldAndTimer /\ events' = << >> /\ log' = << >>
    ]_vars

\* pause() was called on an engine paused in mid-run
C15_Witness ==
  /\ last.op = "pause"
  /\ ~isRunning
  /\ tickTimer = NoTimer
  /\ events = << >>
  /\ log = << >>
  /\ time > 0

\* C16: after reset(), from any reachable state, world time is 0, the hostile
\* and interceptor maps are empty, the pending event queue and the evading
\* set are empty, isRunning is false and no tick timer remains; no tick fires
\* until start() is called again.
C16_ResetClearsWorld ==
  [][ /\ last'.op = "reset" =>
            /\ time' = 0
            /\ hostileDrones' = << >>
            /\ interceptors' = << >>
            /\ eventQueue' = << >>
            /\ evadingDrones' = { }
            /\ ~isRunning'
            /\ tickTimer' = NoTimer
      /\ last'.op = "tickHostiles" => isRunning /\ tickTimer # NoTimer
      /\ (tickTimer = NoTimer /\ tickTimer' # NoTimer) => last'.op = "start"
    ]_vars

\* reset() was called on a running engine that held drones, past world time 0
C16_Witness ==
  /\ last.op = "reset"
  /\ Len(events) = 2
  /\ events[1].is_running = FALSE
  /\ events[1].sim_time > 0
  /\ events[1].drone_count > 0
  /\ evadingDrones = { }
  /\ time = 0

\* C19: world time never decreases while the engine is running: the only
\* changes to world time are +deltaTime in a tick and the set-to-0 in reset()
\* (also when loadScenario calls it), and reset() always leaves the engine not
\* running.
C19_TimeMonotoneWhileRunning ==
  [][ /\ time' # time =>
            \/ /\ last'.op = "tickHostiles"
               /\ isRunning
               /\ time' = time + tickInterval
            \/ /\ last'.op \in { "reset", "loadScenario" }
               /\ time' = 0
               /\ ~isRunning'
      /\ last'.op \in { "reset", "loadScenario" } => time' = 0 /\ ~isRunning'
      /\ (isRunning /\ isRunning') => time' >= time
    ]_vars

\* loadScenario, through reset(), took a running engine from a world time
\* past the launch delay back to 0 and stopped it
C19_Witness ==
  /\ last.op = "loadScenario"
  /\ time = 0
  /\ ~isRunning
  /\ Len(events) = 3
  /\ events[1].sim_time > LaunchDelay
  /\ log[1].event = "simulation_control"

\* C20: the sets of hostile ids and interceptor ids are changed only by
\* reset() and scenario loading: tick, engage, start, pause and
\* setSpeedMultiplier never add or remove an entity, and a neutralized hostile
\* stays in the hostile map and in the status event's drone_count.
C20_EntitiesOnlyByResetOrLoad ==
  [][ last'.op \notin { "reset", "loadScenario" } =>
        /\ MapKeys(hostileDrones') = MapKeys(hostileDrones)
        /\ Len(hostileDrones') = Len(hostileDrones)
        /\ MapKeys(interceptors') = MapKeys(interceptors)
        /\ Len(interceptors') = Len(interceptors)
        /\ \A k \in 1..Len(events') :
              events'[k].type = "simulation_status" =>
                /\ events'[k].drone_count = Cardinality(MapKeys(hostileDrones))
                /\ events'[k].interceptor_count
                     = Cardinality(MapKeys(interceptors))
    ]_vars

\* after a hostile was neutralized, pause() reports a status event that still
\* counts all three hostiles of the scenario
C20_Witness ==
  /\ last.op = "pause"
  /\ Len(events) = 1
  /\ events[1].drone_count = 3
  /\ Len(hostileDrones) = 3
  /\ \E i \in 1..Len(hostileDrones) : hostileDrones[i].isNeutralized

\* ============================== loading built-in and generated scenarios
\* ticks between two loads
MaxLoadTicks == 3

\* the seed of the scenario the run generates and saves
LoadSeeds == { 7 }

\* loadScenario's arguments: the built-in numbers, another number, the id of
\* the scenario generate(7) returns, and an id no scenario is saved under
LoadIds ==
  { NumberId(1), NumberId(2), NumberId(3), NumberId(4),
    StringId(<< "gen_", 7 >>), StringId(<< "gen_", 19 >>) }

\* generator.save(scenario), of the scenario generate returned
save ==
  /\ Len(lastGenerate) > 0
  /\ savedScenarios' =
       MapSet(savedScenarios, lastGenerate[1].scenario.id,
              lastGenerate[1].scenario)
  /\ UNCHANGED << wallClock, firstScenario, lastGenerate >>
  /\ UNCHANGED << engineVars, probVars >>

InitLoad == EngineStart(FALSE) /\ ProbIdle /\ GenIdle

NextLoad ==
  \/ \E seed \in LoadSeeds : Len(lastGenerate) = 0 /\ callGenerate(seed)
  \/ save
  \/ \E id \in LoadIds : loadScenario(id)
  \/ start
  \/ pause
  \/ time < MaxLoadTicks * tickInterval /\ tickHostiles
  \/ tickInterceptor
  \/ tickRadar

SpecLoad == InitLoad /\ [][NextLoad]_vars

\* a string id with no saved generated scenario, or a number other than 1, 2, 3
NoSuchScenario(scenarioId, files) ==
  IF IsNumber(scenarioId)
  THEN scenarioId.number \notin { 1, 2, 3 }
  ELSE ~MapHas(files, scenarioId.string)

\* the worlds loadScenario1 can leave
ScenarioOneLoaded(hostiles, ints) ==
  /\ hostiles = BuiltinHostiles(3)
  /\ \E draws \in IdDraws(2) : ints = SetInterceptors(<< >>, draws, 1)

\* C17: loadScenario(id) always resets first and never fails: a string id with
\* no saved generated scenario, and a numeric id other than 1, 2 or 3, both
\* load built-in scenario 1, and no error is returned or reported.
C17_LoadScenarioFallsBack ==
  [][ last'.op = "loadScenario" =>
        /\ ~crashed'
        /\ time' = 0 /\ ~isRunning' /\ tickTimer' = NoTimer
        /\ eventQueue' = << >> /\ evadingDrones' = { }
        /\ \E k \in 1..Len(log') :
             /\ log'[k].event = "scenario_end"
             /\ log'[k + 1].event = "scenario_start"
             /\ log'[k + 1].scenario_id = currentScenarioId'
        /\ \A k \in 1..Len(events') : events'[k].type = "simulation_status"
        /\ NoSuchScenario(currentScenarioId', savedScenarios) =>
             /\ last'.loader = "loadScenario1"
             /\ ScenarioOneLoaded(hostileDrones', interceptors')
    ]_vars

\* with a generated scenario saved, a running engine was asked for a string
\* id no scenario is saved under, and holds scenario 1
C17_Witness ==
  /\ last.op = "loadScenario"
  /\ last.loader = "loadScenario1"
  /\ ~IsNumber(currentScenarioId)
  /\ Len(savedScenarios) > 0
  /\ Len(events) = 3
  /\ events[1].sim_time > 0
  /\ ScenarioOneLoaded(hostileDrones, interceptors)

\* the numbers of hostiles and of interceptors of built-in scenarios 1, 2, 3
BuiltinCounts == << << 3, 2 >>, << 4, 3 >>, << 3, 2 >> >>

\* C18: after loadScenario(1), from any prior state, the world holds exactly 3
\* hostiles (none neutralized) and exactly 2 interceptors (all STANDBY with
\* null targetId), world time is 0 and the engine is not running; likewise
\* scenario 2 gives 4 hostiles and 3 interceptors and scenario 3 gives 3
\* hostiles and 2 interceptors, whatever ids the entity constructors generate.
C18_BuiltinScenarioCounts ==
  [][ (/\ last'.op = "loadScenario"
       /\ IsNumber(currentScenarioId')
       /\ currentScenarioId'.number \in { 1, 2, 3 }) =>
        /\ Len(hostileDrones') = BuiltinCounts[currentScenarioId'.number][1]
        /\ \A i \in 1..Len(hostileDrones') : ~hostileDrones'[i].isNeutralized
        /\ Len(interceptors') = BuiltinCounts[currentScenarioId'.number][2]
        /\ \A i \in 1..Len(interceptors') :
             /\ interceptors'[i].state = "STANDBY"
             /\ interceptors'[i].targetId = NULL
        /\ time' = 0
        /\ ~isRunning'
    ]_vars

\* the squared relative speed and the altitude difference of the pair
PairSpeedSq ==
  (pair.interceptor.velocity.vx - pair.target.velocity.vx)
    * (pair.interceptor.velocity.vx - pair.target.velocity.vx)
  + (pair.interceptor.velocity.vy - pair.target.velocity.vy)
    * (pair.interceptor.velocity.vy - pair.target.velocity.vy)

PairAltDiff ==
  Abs(pair.interceptor.position.altitude - pair.target.position.altitude)

\* base_success_rate times the evasion factor of the pair, in 1/10000
PairBaseAndEvasion ==
  pair.interceptor.config.base_success_rate
    * (IF pair.target.isEvading
       THEN 100 - pair.target.config.evasion_maneuver_strength ELSE 100)

ExtremeDraws ==
  { Word(hi, lo) :
      hi \in { 0, 1, 2, 255, 256, 32767, 32768, 65279, 65534, 65535 },
      lo \in { 0, 1, 32768, 65534, 65535 } }

InitDraw ==
  /\ EngineInit
  /\ GenIdle
  /\ pair = NoPair
  /\ probability = NoProbability
  /\ KinIdle
  /\ BatchIdle
  /\ rawDraw \in ExtremeDraws
  /\ ranged = << >>

\* count drones that all have the given hostility; a hostile one is on an
\* attack run, another one NORMAL (selectBehavior)
dronesAlike(count, isHostile) ==
  [ i \in 1..count |->
      [ is_hostile |-> isHostile,
        behavior |-> IF isHostile THEN "ATTACK_RUN" ELSE "NORMAL" ] ]

\* the radar_config literal of generateRadarConfig for the draw d
radarConfigOf(d) ==
  [ scan_rate |-> scaleFloat(d, Fix \div 2, 2 * Fix).value,
    max_range |-> scaleInt(d, 1200 - 800 + 1, 800).value,
    radial_noise_sigma |-> scaleFloat(d, 5 * Fix, 20 * Fix).value,
    azimuth_noise_sigma |-> scaleFloat(d, Fix, 5 * Fix).value,
    false_alarm_rate |->
      scaleFloat(d, Fix \div 200, (3 * Fix) \div 100).value,
    miss_probability |->
      scaleFloat(d, (3 * Fix) \div 100, (15 * Fix) \div 100).value ]

\* the scenario fields generate() makes of the draw d
rangedOf(d, config, isHostile, drones, radar_config) ==
  [ interceptor_count |->
      scaleInt(d, config.maxInterceptors - config.minInterceptors + 1,
               config.minInterceptors).value,
    radar_config |-> radar_config,
    drones |-> drones,
    hostile |-> isHostile,
    metadata |->
      [ hostile_ratio |->
          scaleFloat(d, config.hostileRatioMin, config.hostileRatioMax).value,
        difficulty_estimate |-> estimateDifficulty(drones, radar_config) ] ]

drawRanges(isHostile) ==
  /\ ranged = << >>
  /\ ranged' =
       << rangedOf([ rng |-> SeededRandom(0), value |-> rawDraw ],
                   DEFAULT_GENERATOR_CONFIG, isHostile,
                   dronesAlike(
                     scaleInt([ rng |-> SeededRandom(0), value |-> rawDraw ],
                              DEFAULT_GENERATOR_CONFIG.maxDrones
                                - DEFAULT_GENERATOR_CONFIG.minDrones + 1,
                              DEFAULT_GENERATOR_CONFIG.minDrones).value,
                     isHostile),
                   radarConfigOf([ rng |-> SeededRandom(0),
                                   value |-> rawDraw ])) >>
  /\ UNCHANGED << pair, probability, rawDraw, flight, flown, batch >>
  /\ UNCHANGED << engineVars, genVars >>

NextDraw ==
  \/ \E isHostile \in BOOLEAN : drawRanges(isHostile)
  \/ \E seed \in Seeds : Len(lastGenerate) = 0 /\ callGenerate(seed)

SpecDraw == InitDraw /\ [][NextDraw]_vars

\* the scenarios in hand: what generate() returned, what the draw was made into
Scenarios ==
  { lastGenerate[k].scenario : k \in 1..Len(lastGenerate) }
    \cup { ranged[k] : k \in 1..Len(ranged) }

\* C26: every scenario generate() makes with the default configuration has
\* 1 to 15 drones, 1 to 5 interceptors, a hostile ratio within [0.3, 1.0], a
\* range-noise sigma within [5, 20], a bearing-noise sigma within [1, 5], a
\* false-alarm rate within [0.005, 0.03] and a miss probability within
\* [0.03, 0.15].
C26_GeneratedRanges ==
  \A scenario \in Scenarios :
    /\ Len(scenario.drones) \in 1..15
    /\ scenario.interceptor_count \in 1..5
    /\ (3 * Fix) \div 10 <= scenario.metadata.hostile_ratio
    /\ scenario.metadata.hostile_ratio <= Fix
    /\ 5 * Fix <= scenario.radar_config.radial_noise_sigma
    /\ scenario.radar_config.radial_noise_sigma <= 20 * Fix
    /\ Fix <= scenario.radar_config.azimuth_noise_sigma
    /\ scenario.radar_config.azimuth_noise_sigma <= 5 * Fix
    /\ Fix \div 200 <= scenario.radar_config.false_alarm_rate
    /\ scenario.radar_config.false_alarm_rate <= (3 * Fix) \div 100
    /\ (3 * Fix) \div 100 <= scenario.radar_config.miss_probability
    /\ scenario.radar_config.miss_probability <= (15 * Fix) \div 100

\* generate() has returned a scenario, and the largest draw has been put
\* through the ranges: 15 drones, 5 interceptors
C26_Witness ==
  /\ Len(lastGenerate) = 1
  /\ Len(ranged) = 1
  /\ rawDraw = Word(65535, 65535)
  /\ Len(ranged[1].drones) = 15
  /\ ranged[1].interceptor_count = 5
  /\ ranged[1].radar_config.radial_noise_sigma > 19 * Fix


\* the number of hostile drones of a scenario
HostileCount(scenario) ==
  Cardinality({ k \in 1..Len(scenario.drones) : scenario.drones[k].is_hostile })

\* the number of its drones on an attack run
AttackCount(scenario) ==
  Cardinality({ k \in 1..Len(scenario.drones) :
                  scenario.drones[k].behavior = "ATTACK_RUN" })

\* drone count / 5 up to 3, twice the hostile fraction, twice the ATTACK_RUN
\* fraction, range-noise sigma / 20, ten times the miss probability and thirty
\* times the false-alarm rate, in Fix units
WeightedSum(scenario) ==
  Min(3 * Fix, (Len(scenario.drones) * Fix) \div 5)
    + ((HostileCount(scenario) * 2 * Fix)
         \div Len(scenario.drones))
    + ((AttackCount(scenario) * 2 * Fix)
         \div Len(scenario.drones))
    + (scenario.radar_config.radial_noise_sigma \div 20)
    + (scenario.radar_config.miss_probability * 10)
    + (scenario.radar_config.false_alarm_rate * 30)

\* C27: the difficulty estimate of every generated scenario is a whole number
\* from 1 to 10, the weighted sum of drone count, hostile fraction, ATTACK_RUN
\* fraction, range-noise sigma, miss probability and false-alarm rate, clamped
\* to [1, 10] and rounded.
C27_DifficultyClamped ==
  \A scenario \in Scenarios :
    /\ scenario.metadata.difficulty_estimate \in 1..10
    /\ scenario.metadata.difficulty_estimate =
         Round(Min(10 * Fix, Max(Fix, WeightedSum(scenario))))

\* the weighted sum lies above 10 for fifteen attacking drones at the upper
\* end of every range, and the estimate is 10
C27_Witness ==
  /\ Len(ranged) = 1
  /\ Len(ranged[1].drones) = 15
  /\ WeightedSum(ranged[1]) > 10 * Fix
  /\ ranged[1].metadata.difficulty_estimate = 10


\* C24: a run of the experiment runner advances the world by calling the tick
\* entry point directly, once per configured tick, and not by starting the
\* wall-clock timer and waiting: no step of the run creates the timer, and
\* world time advances with no timer set.
C24_BatchTicksWithoutTimer ==
  [][ /\ tickTimer' = NoTimer
      /\ time' > time => (tickTimer = NoTimer /\ ~isRunning) ]_vars


(***************************************************************************)
(* The websocket server's message handler over the engine: a message is    *)
(* parsed, handleCommand switches on its type and calls the engine, and    *)
(* the try block around both catches whatever they throw.  The timer ticks *)
(* between messages.                                                       *)
(***************************************************************************)

\* the timer is followed for this many ticks
MaxMsgTicks == 2

\* the value JSON.parse gives for the text null
JsonNull == [ null |-> TRUE ]

\* command[name], undefined when the command has no such property
Has(command, name) == name \in DOMAIN command

Field(command, name) == IF Has(command, name) THEN command[name] ELSE NULL

\* the values of well-formed messages
Commands ==
  { [ type |-> "simulation_control", action |-> "start" ],
    [ type |-> "simulation_control", action |-> "pause" ],
    [ type |-> "simulation_control", action |-> "reset" ],
    [ type |-> "simulation_control", action |-> "reset",
      scenario_id |-> NumberId(1) ],
    [ type |-> "simulation_control", action |-> "set_speed",
      speed_multiplier |-> 10 ],
    [ type |-> "simulation_control", action |-> "set_speed" ],
    [ type |-> "engage_command", drone_id |-> HostileIdPool[1] ],
    [ type |-> "engage_command", drone_id |-> HostileIdPool[1],
      method |-> "GUN", guidance_mode |-> "PURE_PURSUIT" ],
    [ type |-> "engage_command", drone_id |-> HostileIdPool[1],
      interceptor_id |-> InterceptorIdPool[2], guidance_mode |-> "PN" ],
    [ type |-> "engagement_state_command", drone_id |-> HostileIdPool[1],
      state |-> "ENGAGE" ],
    [ type |-> "engagement_state_command", drone_id |-> HostileIdPool[1],
      state |-> "TRACK" ],
    [ type |-> "launch_interceptor", target_id |-> HostileIdPool[1],
      interceptor_id |-> InterceptorIdPool[1] ],
    [ type |-> "manual_action", action |-> "select_drone",
      target_id |-> HostileIdPool[1] ],
    [ type |-> "generate_scenario", seed |-> 7 ],
    [ type |-> "get_scenarios" ] }

\* values that are no command: null, an object without a type, objects with a
\* type handleCommand has no case for, and a command lacking a property its
\* handler reads
Malformed ==
  { JsonNull,
    [ action |-> "start" ],
    [ type |-> "simulation_controls", action |-> "start" ],
    [ type |-> "shutdown" ],
    [ type |-> "engagement_state_command", drone_id |-> HostileIdPool[1] ] }

\* the data of a message: a text JSON.parse throws on, or one it gives a
\* value for
Messages ==
  { [ parses |-> FALSE, value |-> JsonNull ] }
    \cup { [ parses |-> TRUE, value |-> v ] : v \in Commands \cup Malformed }

\* the case labels of handleCommand
CommandTypes ==
  { "simulation_control", "engage_command", "engagement_state_command",
    "launch_interceptor", "manual_action", "generate_scenario",
    "get_scenarios" }

\* JSON.parse throws SyntaxError; command.type of null and
\* command.state.toLowerCase() of a missing state throw TypeError
Throws(data) ==
  \/ ~data.parses
  \/ data.value = JsonNull
  \/ /\ Field(data.value, "type") = "engagement_state_command"
     /\ ~Has(data.value, "state")

\* the catch of the message handler, and the default of handleCommand: the
\* message is logged to the console and nothing else happens
dropMessage(data, why) ==
  /\ Idle
  /\ last' = [ Last("onMessage") EXCEPT !.ret = why, !.message = << data >> ]
  /\ events' = << >>
  /\ log' = << >>
  /\ UNCHANGED << time, isRunning, speedMultiplier, tickTimer, liveTimers,
                  hostileDrones,
                  interceptors, eventQueue, evadingDrones, currentScenarioId,
                  autoEngage, radarConfig, radarSensor, pc, idx, crashed >>
  /\ UNCHANGED << probVars, genVars >>

\* a simulation_control command whose action has no case, or set_speed without
\* a speed_multiplier: handleSimulationControl returns
noControl(data) == dropMessage(data, "no action")

\* simulation.reset() and then simulation.loadScenario(scenarioId), which
\* resets once more
resetThenLoadScenario(scenarioId) ==
  /\ Idle
  /\ LET r == resetEffect(isRunning, tickTimer, time, hostileDrones, interceptors)
         ld == ScenarioLoad(scenarioId, savedScenarios)
     IN  \E draws \in IdDraws(ld.interceptorCount) :
           LET again == resetEffect(r.isRunning, r.tickTimer, r.time,
                                    r.hostileDrones, r.interceptors)
               e == loadScenarioEmits(scenarioId, r.isRunning, ld.hostiles,
                                      SetInterceptors(<< >>, draws, 1))
           IN  /\ isRunning' = r.isRunning
               /\ tickTimer' = r.tickTimer
               /\ liveTimers' = (liveTimers - r.cleared) - again.cleared
               /\ time' = r.time
               /\ eventQueue' = r.eventQueue
               /\ evadingDrones' = r.evadingDrones
               /\ hostileDrones' = ld.hostiles
               /\ interceptors' = SetInterceptors(<< >>, draws, 1)
               /\ events' = r.events \o again.events \o e.events
               /\ log' = r.log \o again.log \o e.log
               /\ last' = [ Last("loadScenario") EXCEPT !.loader = ld.loader ]
               /\ radarConfig' =
                    IF ld.radar # << >> THEN ld.radar[1] ELSE radarConfig
               /\ radarSensor' =
                    IF ld.radar # << >>
                    THEN RadarSensor(ld.radar[1]) ELSE radarSensor
  /\ currentScenarioId' = scenarioId
  /\ UNCHANGED << probVars, genVars >>
  /\ UNCHANGED << speedMultiplier, autoEngage, pc, idx, crashed >>

handleSimulationControl(data) ==
  LET command == data.value
  IN  CASE Field(command, "action") = "start" -> start
        [] Field(command, "action") = "pause" -> pause
        [] Field(command, "action") = "reset" ->
             IF Has(command, "scenario_id")
             THEN resetThenLoadScenario(command.scenario_id)
             ELSE reset
        [] Field(command, "action") = "set_speed" ->
             IF Has(command, "speed_multiplier") /\ command.speed_multiplier # 0
             THEN setSpeedMultiplier(command.speed_multiplier)
             ELSE noControl(data)
        [] OTHER -> noControl(data)

\* logManualAction(action, targetId, details)
ManualActionLog(now, action, targetId) ==
  [ event |-> "manual_action", timestamp |-> now, action |-> action,
    target_id |-> targetId ]

\* the handlers that call simulation.handleEngageCommand(droneId,
\* interceptorId, 'user'), after the log entries before
engageFor(data, droneId, interceptorId, before) ==
  /\ Idle
  /\ LET r == handleEngageCommand(hostileDrones, interceptors, time,
                                  droneId, interceptorId, "user", NULL, NULL)
     IN  /\ interceptors' = r.interceptors
         /\ log' = before \o r.log
         /\ last' = [ Last("handleEngageCommand") EXCEPT
                        !.droneId = droneId, !.interceptorId = interceptorId,
                        !.ret = r.ret, !.message = << data >> ]
  /\ events' = << >>
  /\ UNCHANGED << probVars, genVars >>
  /\ UNCHANGED << time, isRunning, speedMultiplier, tickTimer, liveTimers,
                  hostileDrones,
                  eventQueue, evadingDrones, currentScenarioId,
                  autoEngage, radarConfig, radarSensor, pc,
                  idx, crashed >>

\* handlers that write the manual_action entry and nothing else
manualAction(data, action, targetId) ==
  /\ Idle
  /\ log' = << ManualActionLog(time, action, targetId) >>
  /\ last' = [ Last("logManualAction") EXCEPT !.message = << data >> ]
  /\ events' = << >>
  /\ UNCHANGED << time, isRunning, speedMultiplier, tickTimer, liveTimers,
                  hostileDrones,
                  interceptors, eventQueue, evadingDrones, currentScenarioId,
                  autoEngage, radarConfig, radarSensor, pc, idx, crashed >>
  /\ UNCHANGED << probVars, genVars >>

\* the websocket server's handleEngageCommand
onEngageCommand(data) ==
  engageFor(data, Field(data.value, "drone_id"),
            Field(data.value, "interceptor_id"), << >>)

handleEngagementStateCommand(data) ==
  IF data.value.state = "ENGAGE"
  THEN engageFor(data, Field(data.value, "drone_id"), NULL,
                 << ManualActionLog(time, << "engagement_state_",
                                             data.value.state >>,
                                    Field(data.value, "drone_id")) >>)
  ELSE manualAction(data, << "engagement_state_", data.value.state >>,
                    Field(data.value, "drone_id"))

handleLaunchInterceptor(data) ==
  engageFor(data, Field(data.value, "target_id"),
            Field(data.value, "interceptor_id"), << >>)

\* the scenario list sent to clients: the three built-in scenarios, then the
\* saved ones (after one generate_scenario seed there is at most one file,
\* which the sort of listSavedScenarios leaves in place)
getScenarioList(files) ==
  << NumberId(1), NumberId(2), NumberId(3) >>
    \o [ k \in 1..Len(files) |-> StringId(files[k].id) ]

\* generate(command.seed), save, the reply and the broadcast of the list
handleGenerateScenario(data) ==
  /\ Idle
  /\ LET scenario ==
           generate(IF Has(data.value, "seed") THEN data.value.seed ELSE NoSeed,
                    wallClock, DEFAULT_GENERATOR_CONFIG)
     IN  /\ lastGenerate' =
               << [ seed |-> Field(data.value, "seed"), scenario |-> scenario ] >>
         /\ savedScenarios' =
              MapSet(savedScenarios, lastGenerate'[1].scenario.id,
                     lastGenerate'[1].scenario)
         /\ events' =
              << [ type |-> "scenarios_generated",
                   scenarios |-> << lastGenerate'[1].scenario.id >> ],
                 [ type |-> "scenario_list",
                   scenarios |-> getScenarioList(savedScenarios') ] >>
  /\ log' = << >>
  /\ last' = [ Last("handleGenerateScenario") EXCEPT !.message = << data >> ]
  /\ UNCHANGED << wallClock, firstScenario >>
  /\ UNCHANGED << time, isRunning, speedMultiplier, tickTimer, liveTimers,
                  hostileDrones,
                  interceptors, eventQueue, evadingDrones, currentScenarioId,
                  autoEngage, radarConfig, radarSensor, pc, idx, crashed >>
  /\ UNCHANGED probVars

handleGetScenarios(data) ==
  /\ Idle
  /\ events' = << [ type |-> "scenario_list",
                    scenarios |-> getScenarioList(savedScenarios) ] >>
  /\ log' = << >>
  /\ last' = [ Last("handleGetScenarios") EXCEPT !.message = << data >> ]
  /\ UNCHANGED << time, isRunning, speedMultiplier, tickTimer, liveTimers,
                  hostileDrones,
                  interceptors, eventQueue, evadingDrones, currentScenarioId,
                  autoEngage, radarConfig, radarSensor, pc, idx, crashed >>
  /\ UNCHANGED << probVars, genVars >>

handleCommand(data) ==
  CASE Field(data.value, "type") = "simulation_control" ->
         handleSimulationControl(data)
    [] Field(data.value, "type") = "engage_command" -> onEngageCommand(data)
    [] Field(data.value, "type") = "engagement_state_command" ->
         handleEngagementStateCommand(data)
    [] Field(data.value, "type") = "launch_interceptor" ->
         handleLaunchInterceptor(data)
    [] Field(data.value, "type") = "manual_action" ->
         manualAction(data, Field(data.value, "action"),
                      Field(data.value, "target_id"))
    [] Field(data.value, "type") = "generate_scenario" ->
         handleGenerateScenario(data)
    [] Field(data.value, "type") = "get_scenarios" -> handleGetScenarios(data)
    [] OTHER -> dropMessage(data, "unknown command")

\* what a message handler without the try block would do with an exception:
\* it leaves the handler
escapeHandler(data) ==
  /\ Idle
  /\ crashed' = TRUE
  /\ last' = [ Last("onMessage") EXCEPT !.ret = "uncaught", !.message = << data >> ]
  /\ events' = << >>
  /\ log' = << >>
  /\ UNCHANGED << time, isRunning, speedMultiplier, tickTimer, liveTimers,
                  hostileDrones,
                  interceptors, eventQueue, evadingDrones, currentScenarioId,
                  autoEngage, radarConfig, radarSensor, pc, idx >>
  /\ UNCHANGED << probVars, genVars >>

\* variant of onMessage: no try block around JSON.parse and handleCommand
onMessageUncaught(data) ==
  IF Throws(data)
  THEN escapeHandler(data)
  ELSE handleCommand(data)

\* ws.on('message'): try { handleCommand(JSON.parse(data)) } catch { log }
onMessage(data) ==
  IF Throws(data)
  THEN dropMessage(data, "error caught")
  ELSE handleCommand(data)

InitMsg == EngineStart(FALSE) /\ ProbIdle /\ GenIdle

\* the messages a client sends with the files on disk: a scenario is
\* generated once
Sendable(files) ==
  { data \in Messages :
      Field(data.value, "type") = "generate_scenario" => Len(files) = 0 }

NextMsg ==
  \/ \E data \in Sendable(savedScenarios) : onMessage(data)
  \/ time < MaxMsgTicks * tickInterval /\ tickHostiles
  \/ tickInterceptor
  \/ tickRadar

SpecMsg == InitMsg /\ [][NextMsg]_vars


\* the world of the engine, its timer and its position in a tick
WorldAndTick ==
  << time, isRunning, speedMultiplier, tickTimer, hostileDrones, interceptors,
     eventQueue, evadingDrones, currentScenarioId, pc, idx >>

\* a text that is not JSON, or a value whose type is no command type
BadMessages ==
  { data \in Messages :
      ~data.parses \/ Field(data.value, "type") \notin CommandTypes }

\* C23: a message that does not parse as JSON, or whose type is no known
\* command type, is dropped: the world, the timer and the files stay as they
\* are, nothing is emitted or logged by the engine, and no exception leaves
\* the handler, so that the engine goes on taking commands and ticks.
C23_BadMessagesDropped ==
  [][ \A data \in BadMessages :
        onMessage(data) =>
          /\ WorldAndTick' = WorldAndTick
          /\ genVars' = genVars
          /\ events' = << >> /\ log' = << >>
          /\ crashed' = crashed /\ ~crashed' ]_vars

\* a message was dropped by a running engine with a scenario loaded and an
\* interceptor launched
C23_Witness ==
  /\ last.op = "onMessage"
  /\ last.message[1] \in BadMessages
  /\ isRunning /\ tickTimer # NoTimer /\ time > 0
  /\ \E k \in 1..Len(interceptors) : interceptors[k].state = "LAUNCHING"
  /\ ~crashed

\* the engage_command messages
EngageMessages ==
  { data \in Messages : Field(data.value, "type") = "engage_command" }

\* C28: an engage_command that carries a guidance_mode and a method launches
\* the interceptor under that guidance mode and method; the engine's default
\* guidance mode and the default method are used only when the command has
\* none.
C28_EngageCommandGuidanceMode ==
  [][ \A data \in EngageMessages :
        (onMessage(data) /\ last'.ret = TRUE) =>
          /\ log'[1].event = "engage_command"
          /\ log'[1].guidance_mode =
               IF Has(data.value, "guidance_mode")
               THEN data.value.guidance_mode
               ELSE defaultGuidanceMode
          /\ log'[1].method =
               IF Has(data.value, "method")
               THEN data.value.method
               ELSE MethodOrDefault(NULL) ]_vars


\* the interceptors launched since the scenario was loaded
Launched(ints) == { k \in 1..Len(ints) : ints[k].launchTime # NoTime }

\* C22: an intercept result is ABORTED only for a hostile that an interceptor
\* bound to it has neutralized before: the hostile is neutralized when the
\* update starts, a hostile becomes neutralized only in the update of an
\* interceptor bound to it that resolves SUCCESS, and an interceptor other
\* than the aborting one has been launched.  With one interceptor launched,
\* as after a single engage command in scenario 1, every intercept result is
\* SUCCESS, MISS or EVADED.
C22_AbortedOnlyAfterSuccess ==
  [][ /\ \A k \in 1..Len(hostileDrones) :
           ( /\ Len(hostileDrones') = Len(hostileDrones)
             /\ ~hostileDrones[k].isNeutralized
             /\ hostileDrones'[k].isNeutralized ) =>
             /\ last'.op = "tickInterceptor"
             /\ last'.interceptResult = "SUCCESS"
             /\ interceptors[idx].targetId = hostileDrones[k].id
      /\ (last'.op = "tickInterceptor" /\ last'.interceptResult # NULL) =>
           /\ Cardinality(Launched(interceptors)) <= 1 =>
                last'.interceptResult \in { "SUCCESS", "MISS", "EVADED" }
           /\ last'.interceptResult = "ABORTED" =>
                /\ MapHas(hostileDrones, interceptors[idx].targetId)
                /\ MapGet(hostileDrones, interceptors[idx].targetId).isNeutralized
                /\ Launched(interceptors) \ { idx } # { }
                /\ \E e \in 1..Len(events') :
                     /\ events'[e].type = "intercept_result"
                     /\ events'[e].result = "ABORTED"
                     /\ events'[e].target_id = interceptors[idx].targetId ]_vars

\* an engagement has just been aborted: its target was neutralized by the
\* other interceptor
C22_Witness ==
  /\ last.op = "tickInterceptor"
  /\ last.interceptResult = "ABORTED"
  /\ Cardinality(Launched(interceptors)) = 2
  /\ \E k \in 1..Len(hostileDrones) : hostileDrones[k].isNeutralized

\* C30: an engage command is not rejected because its target already has an
\* interceptor bound, so several interceptors can be bound to one hostile;
\* once the hostile is neutralized, the update of another interceptor bound
\* to it sends that interceptor to RETURNING with targetId cleared, with the
\* result ABORTED from ENGAGING and with no result from PURSUING, while one
\* in LAUNCHING stays bound until its launch has completed to PURSUING.
C30_OthersReturnAfterSuccess ==
  [][ /\ ( /\ last'.op = "handleEngageCommand"
           /\ MapHas(hostileDrones, last'.droneId)
           /\ ~MapGet(hostileDrones, last'.droneId).isNeutralized
           /\ SelectInterceptor(interceptors, last'.interceptorId) # 0
           /\ IsStandby(interceptors[SelectInterceptor(interceptors,
                                                       last'.interceptorId)]) )
           => last'.ret = TRUE
      /\ ( /\ last'.op = "tickInterceptor"
           /\ MapHas(hostileDrones, interceptors[idx].targetId)
           /\ MapGet(hostileDrones, interceptors[idx].targetId).isNeutralized ) =>
           /\ interceptors[idx].state = "ENGAGING" =>
                /\ interceptors'[idx].state = "RETURNING"
                /\ interceptors'[idx].targetId = NULL
                /\ last'.interceptResult = "ABORTED"
           /\ interceptors[idx].state = "PURSUING" =>
                /\ interceptors'[idx].state = "RETURNING"
                /\ interceptors'[idx].targetId = NULL
                /\ last'.interceptResult = NULL
                /\ \A e \in 1..Len(events') : events'[e].type # "intercept_result"
           /\ interceptors[idx].state = "LAUNCHING" =>
                /\ interceptors'[idx].state \in { "LAUNCHING", "PURSUING" }
                /\ interceptors'[idx].targetId = interceptors[idx].targetId
                /\ last'.interceptResult = NULL ]_vars

\* an interceptor in pursuit of a hostile that the other interceptor has
\* neutralized has just turned back, without an intercept result
C30_Witness ==
  /\ last.op = "tickInterceptor"
  /\ last.interceptResult = NULL
  /\ Len(interceptors) = 2
  /\ \E k \in 1..2 :
       /\ interceptors[k].id = last.interceptorId
       /\ interceptors[k].state = "RETURNING"
       /\ interceptors[k].targetId = NULL
       /\ interceptors[k].launchTime = interceptors[3 - k].launchTime
       /\ last.geo.distToBase >= ArrivalRadius
  /\ \E k \in 1..Len(hostileDrones) : hostileDrones[k].isNeutralized
  /\ events[1].type = "interceptor_update"


(***************************************************************************)
(* updateInterceptor with its kinematics, one interceptor and its target.  *)
(* Positions are in centimetres and velocities in centimetres per second;  *)
(* square roots and quotients are rounded towards zero.  The state and the *)
(* intercept result are those of updateInterceptor above, under the        *)
(* distances and velocities computed here.                                 *)
(***************************************************************************)

\* one metre, one metre per second
Metre == 100

\* ticks a flight is followed beyond the launch delay
MaxFlightTicks == 3

\* ticks an interceptor is followed while it is LAUNCHING or RETURNING
MaxReturnTicks == 300

\* otherwise the flights are followed up to this world time (ms)
MaxFlightTime == LaunchDelay + MaxFlightTicks * tickInterval

RECURSIVE SqrtBetween(_, _, _)
\* the largest r in lo..hi with r * r <= n
SqrtBetween(n, lo, hi) ==
  IF lo >= hi
  THEN lo
  ELSE IF ((lo + hi + 1) \div 2) * ((lo + hi + 1) \div 2) <= n
       THEN SqrtBetween(n, (lo + hi + 1) \div 2, hi)
       ELSE SqrtBetween(n, lo, ((lo + hi + 1) \div 2) - 1)

\* Math.sqrt
Sqrt(n) == SqrtBetween(n, 0, 40000)

\* a * b / c, towards zero, for non-negative b and positive c
Scaled(a, b, c) ==
  IF a < 0 THEN 0 - (((0 - a) * b) \div c) ELSE (a * b) \div c

distance3D(p1, p2) ==
  Sqrt(((p2.x - p1.x) * (p2.x - p1.x)) + ((p2.y - p1.y) * (p2.y - p1.y))
         + ((p2.altitude - p1.altitude) * (p2.altitude - p1.altitude)))

\* normalize3D(dx, dy, dz) times speed: zero when the length is (below a
\* millimetre, here) zero
directed(dx, dy, dz, len, speed) ==
  IF len = 0
  THEN [ x |-> 0, y |-> 0, z |-> 0 ]
  ELSE [ x |-> Scaled(dx, speed, len), y |-> Scaled(dy, speed, len),
         z |-> Scaled(dz, speed, len) ]

\* the velocity of the given speed from position from towards position to,
\* the climb rate kept within -maxClimb..maxClimb
towards(from, to, speed, maxClimb) ==
  LET d == directed(to.x - from.x, to.y - from.y, to.altitude - from.altitude,
                    distance3D(from, to), speed)
  IN  [ vx |-> d.x, vy |-> d.y,
        climbRate |-> Max(0 - maxClimb, Min(maxClimb, d.z)) ]

predictTargetPosition(target, seconds) ==
  [ x |-> target.position.x + target.velocity.vx * seconds,
    y |-> target.position.y + target.velocity.vy * seconds,
    altitude |-> target.position.altitude + target.velocity.climbRate * seconds ]

\* pursueTarget: towards the target's position in 2 s, at the current speed
\* plus acceleration * deltaTime up to max_speed
pursueTarget(interceptor, target, dt) ==
  [ interceptor EXCEPT !.velocity =
      towards(interceptor.position, predictTargetPosition(target, 2),
              Min(interceptor.config.max_speed,
                  Sqrt((interceptor.velocity.vx * interceptor.velocity.vx)
                         + (interceptor.velocity.vy * interceptor.velocity.vy)
                         + (interceptor.velocity.climbRate
                              * interceptor.velocity.climbRate))
                    + Scaled(interceptor.config.acceleration, dt, 1000)),
              interceptor.config.climb_rate) ]

\* variant of returnToBase: level flight, the altitude kept
returnToBaseLevel(interceptor, basePosition) ==
  [ interceptor EXCEPT !.velocity =
      [ towards(interceptor.position, basePosition,
                (interceptor.config.max_speed * 7) \div 10, 5 * Metre)
          EXCEPT !.climbRate = 0 ] ]

\* variant of returnToBase: at max_speed
returnToBaseAtMaxSpeed(interceptor, basePosition) ==
  [ interceptor EXCEPT !.velocity =
      towards(interceptor.position, basePosition,
              interceptor.config.max_speed, 5 * Metre) ]

\* returnToBase: towards the base at max_speed * 0.7, the climb rate kept
\* within -5..5 m/s
returnToBase(interceptor, basePosition) ==
  [ interceptor EXCEPT !.velocity =
      towards(interceptor.position, basePosition,
              (interceptor.config.max_speed * 7) \div 10, 5 * Metre) ]

\* variant of integrate: the altitude without its floor
integrateWithoutFloor(entity, dt) ==
  [ entity EXCEPT !.position =
      [ x |-> entity.position.x + Scaled(entity.velocity.vx, dt, 1000),
        y |-> entity.position.y + Scaled(entity.velocity.vy, dt, 1000),
        altitude |->
          entity.position.altitude + Scaled(entity.velocity.climbRate, dt, 1000) ] ]

\* the position update that ends updateInterceptor: position + velocity *
\* deltaTime, the altitude not below 10 m
integrate(entity, dt) ==
  [ entity EXCEPT !.position =
      [ x |-> entity.position.x + Scaled(entity.velocity.vx, dt, 1000),
        y |-> entity.position.y + Scaled(entity.velocity.vy, dt, 1000),
        altitude |->
          Max(10 * Metre,
              entity.position.altitude
                + Scaled(entity.velocity.climbRate, dt, 1000)) ] ]

\* variant of steer: a LAUNCHING interceptor keeps the velocity it has
steerLaunchingAsIs(interceptor, target, basePosition, dt) ==
  CASE interceptor.state \in { "PURSUING", "ENGAGING" } ->
         IF TargetGone(target) THEN interceptor
         ELSE pursueTarget(interceptor, target, dt)
    [] interceptor.state = "RETURNING" -> returnToBase(interceptor, basePosition)
    [] OTHER -> interceptor

\* the velocity the switch of updateInterceptor sets before its state changes
steer(interceptor, target, basePosition, dt) ==
  CASE interceptor.state = "LAUNCHING" ->
         [ interceptor EXCEPT !.velocity =
             [ vx |-> 0, vy |-> 0, climbRate |-> interceptor.config.climb_rate ] ]
    [] interceptor.state \in { "PURSUING", "ENGAGING" } ->
         IF TargetGone(target) THEN interceptor
         ELSE pursueTarget(interceptor, target, dt)
    [] interceptor.state = "RETURNING" -> returnToBase(interceptor, basePosition)
    [] OTHER -> interceptor

\* the distances and velocities the state changes and the success probability
\* read, in metres and metres per second
geoOf(interceptor, target, basePosition, sample) ==
  [ distToTarget |->
      IF target.id = NULL THEN 0
      ELSE distance3D(interceptor.position, target.position) \div Metre,
    distToBase |-> distance3D(interceptor.position, basePosition) \div Metre,
    sample |-> sample,
    interceptorVelocity |->
      [ vx |-> Scaled(interceptor.velocity.vx, 1, Metre),
        vy |-> Scaled(interceptor.velocity.vy, 1, Metre) ],
    interceptorAltitude |-> interceptor.position.altitude \div Metre,
    targetVelocity |->
      [ vx |-> Scaled(target.velocity.vx, 1, Metre),
        vy |-> Scaled(target.velocity.vy, 1, Metre) ],
    targetAltitude |-> target.position.altitude \div Metre ]

\* on arrival: velocity zero, position the base's at its altitude + 10 m
settle(steered, updated, basePosition) ==
  IF steered.state = "RETURNING" /\ updated.state = "STANDBY"
  THEN [ updated EXCEPT
           !.velocity = [ vx |-> 0, vy |-> 0, climbRate |-> 0 ],
           !.position = [ x |-> basePosition.x, y |-> basePosition.y,
                          altitude |-> basePosition.altitude + 10 * Metre ] ]
  ELSE updated

\* the state change and the intercept result of the steered interceptor,
\* then the arrival and the position update
moved(steered, u, basePosition, dt) ==
  [ interceptor |-> integrate(settle(steered, u.interceptor, basePosition), dt),
    interceptResult |-> u.interceptResult ]

\* updateInterceptor(interceptor, deltaTime, target, basePosition, currentTime)
\* with the value sample of Math.random()
updateInterceptorMoving(interceptor, dt, target, basePosition, currentTime, sample) ==
  IF interceptor.state = "NEUTRALIZED" \/ interceptor.state = "STANDBY"
  THEN [ interceptor |-> interceptor, interceptResult |-> NULL ]
  ELSE moved(steer(interceptor, target, basePosition, dt),
             updateInterceptor(
               steer(interceptor, target, basePosition, dt), target, currentTime,
               geoOf(steer(interceptor, target, basePosition, dt), target,
                     basePosition, sample)),
             basePosition, dt)

\* the hostile of the flight moves on: position + velocity * deltaTime, the
\* altitude not below 10 m
moveHostile(target, dt) ==
  IF target.id = NULL THEN target ELSE integrate(target, dt)

\* config of the interceptors of the flights
FlightConfig ==
  [ engagement_range |-> DEFAULT_INTERCEPTOR_CONFIG.engagement_range,
    base_success_rate |-> DEFAULT_INTERCEPTOR_CONFIG.base_success_rate,
    max_speed |-> 60 * Metre, acceleration |-> 15 * Metre,
    climb_rate |-> 8 * Metre ]

BasePositions ==
  { [ x |-> 0, y |-> 0, altitude |-> 50 * Metre ],
    [ x |-> 0, y |-> 0, altitude |-> 0 ] }

\* an interceptor in flight: at the base, close to it and away from it, at
\* the floor, just above it, at hover height and high up; at rest, flying
\* level and descending
FlightPositions ==
  { [ x |-> x, y |-> 0, altitude |-> a ] :
      x \in { 0, 12 * Metre, 60 * Metre },
      a \in { 10 * Metre, 1020, 60 * Metre, 120 * Metre } }

FlightVelocities ==
  { [ vx |-> 0, vy |-> 0, climbRate |-> 0 ],
    [ vx |-> 30 * Metre, vy |-> 0, climbRate |-> 0 ],
    [ vx |-> 0, vy |-> 0, climbRate |-> 0 - 8 * Metre ] }

\* the hostile of the flights, low or high, neutralized or not
FlightTargets ==
  { [ id |-> HostileIdPool[1], isNeutralized |-> n, isEvading |-> FALSE,
      config |-> DEFAULT_HOSTILE_DRONE_CONFIG,
      position |-> [ x |-> 40 * Metre, y |-> 30 * Metre, altitude |-> a ],
      velocity |-> [ vx |-> 0 - 15 * Metre, vy |-> 0,
                     climbRate |-> 0 - 3 * Metre ] ] :
      n \in BOOLEAN, a \in { 10 * Metre, 80 * Metre } }

\* no target: null
NoFlightTarget ==
  [ id |-> NULL, isNeutralized |-> FALSE, isEvading |-> FALSE,
    config |-> DEFAULT_HOSTILE_DRONE_CONFIG,
    position |-> [ x |-> 0, y |-> 0, altitude |-> 10 * Metre ],
    velocity |-> [ vx |-> 0, vy |-> 0, climbRate |-> 0 ] ]

\* an interceptor launched at world time 0 and bound to the hostile
BoundFlights ==
  { [ interceptor |->
        [ id |-> InterceptorIdPool[1], state |-> st, config |-> FlightConfig,
          targetId |-> HostileIdPool[1], launchTime |-> 0,
          position |-> p, velocity |-> v ],
      target |-> t, basePosition |-> b, currentTime |-> now ] :
      st \in { "LAUNCHING", "PURSUING", "ENGAGING" },
      p \in FlightPositions, v \in FlightVelocities, t \in FlightTargets,
      b \in BasePositions, now \in { tickInterval, LaunchDelay + tickInterval } }

\* an interceptor on its way back
ReturningFlights ==
  { [ interceptor |->
        [ id |-> InterceptorIdPool[1], state |-> "RETURNING",
          config |-> FlightConfig, targetId |-> NULL, launchTime |-> 0,
          position |-> p, velocity |-> v ],
      target |-> NoFlightTarget, basePosition |-> b,
      currentTime |-> LaunchDelay + tickInterval ] :
      p \in FlightPositions, v \in FlightVelocities, b \in BasePositions }

\* an interceptor as createInterceptor leaves it: at the base, 10 m above
StandbyFlights ==
  { [ interceptor |->
        [ id |-> InterceptorIdPool[1], state |-> "STANDBY",
          config |-> FlightConfig, targetId |-> NULL, launchTime |-> NoTime,
          position |-> [ x |-> b.x, y |-> b.y,
                         altitude |-> b.altitude + 10 * Metre ],
          velocity |-> [ vx |-> 0, vy |-> 0, climbRate |-> 0 ] ],
      target |-> NoFlightTarget, basePosition |-> b,
      currentTime |-> tickInterval ] :
      b \in BasePositions }

Flights == BoundFlights \cup ReturningFlights \cup StandbyFlights

InitKin ==
  /\ EngineInit
  /\ GenIdle
  /\ pair = NoPair
  /\ probability = NoProbability
  /\ DrawIdle
  /\ BatchIdle
  /\ flight \in { << f >> : f \in Flights }
  /\ flown = << >>

\* one update of the interceptor of the flight
fly(sample) ==
  /\ flown = << >>
  /\ flown' = << updateInterceptorMoving(
                   flight[1].interceptor, deltaTime, flight[1].target,
                   flight[1].basePosition, flight[1].currentTime, sample) >>
  /\ UNCHANGED << pair, probability, rawDraw, ranged, flight, batch >>
  /\ UNCHANGED << engineVars, genVars >>

\* the next tick: the hostile is neutralized by a SUCCESS and moves on
flyOn ==
  /\ flown # << >>
  /\ \/ flight[1].currentTime < MaxFlightTime
     \/ /\ flown[1].interceptor.state \in { "LAUNCHING", "RETURNING" }
        /\ flight[1].currentTime < MaxReturnTicks * tickInterval
  /\ flight' =
       << [ flight[1] EXCEPT
              !.interceptor = flown[1].interceptor,
              !.target =
                moveHostile(
                  [ flight[1].target EXCEPT
                      !.isNeutralized =
                        @ \/ flown[1].interceptResult = "SUCCESS" ],
                  deltaTime),
              !.currentTime = @ + deltaTime ] >>
  /\ flown' = << >>
  /\ UNCHANGED << pair, probability, rawDraw, ranged, batch >>
  /\ UNCHANGED << engineVars, genVars >>

\* Math.random() below and above every success probability
FlightSamples == { 0, 99 }

NextKin ==
  \/ \E sample \in FlightSamples : fly(sample)
  \/ flyOn

SpecKin == InitKin /\ [][NextKin]_vars


\* C21: after every tick every hostile and every interceptor is at an
\* altitude of at least 10 m: an interceptor in every state, at the base
\* altitude + 10 m in STANDBY and through the floor of the position update
\* when it moves, the base altitude being at least 0.
C21_AltitudeFloor ==
  /\ \A k \in 1..Len(flight) :
       flight[k].basePosition.altitude >= 0 =>
         /\ flight[k].interceptor.position.altitude >= 10 * Metre
         /\ flight[k].target.position.altitude >= 10 * Metre
  /\ \A k \in 1..Len(flown) :
       flight[k].basePosition.altitude >= 0 =>
         flown[k].interceptor.position.altitude >= 10 * Metre

\* an interceptor and, a tick earlier, a hostile were held at the floor by
\* the position update
C21_Witness ==
  /\ flown # << >>
  /\ flight[1].interceptor.state # "STANDBY"
  /\ flown[1].interceptor.position.altitude = 10 * Metre
  /\ flight[1].interceptor.position.altitude
       + Scaled(flown[1].interceptor.velocity.climbRate, deltaTime, 1000)
       < 10 * Metre
  /\ flight[1].target.id # NULL
  /\ flight[1].target.position.altitude = 10 * Metre
  /\ flight[1].target.velocity.climbRate < 0
  /\ flight[1].currentTime > LaunchDelay + tickInterval

\* the interceptor of the flight was RETURNING at its update
Returned == flown # << >> /\ flight[1].interceptor.state = "RETURNING"

\* its distance to the base at the update
ReturnDistance ==
  distance3D(flight[1].interceptor.position, flight[1].basePosition)

\* max_speed * 0.7
ReturnSpeed == (flight[1].interceptor.config.max_speed * 7) \div 10

\* STANDBY at rest, exactly above the base at its altitude + 10 m
Arrived ==
  /\ flown[1].interceptor.state = "STANDBY"
  /\ flown[1].interceptor.velocity = [ vx |-> 0, vy |-> 0, climbRate |-> 0 ]
  /\ flown[1].interceptor.position =
       [ x |-> flight[1].basePosition.x, y |-> flight[1].basePosition.y,
         altitude |-> flight[1].basePosition.altitude + 10 * Metre ]

\* v is the component d of the offset to the base, scaled to ReturnSpeed
AlongOffset(v, d) ==
  Abs(v * ReturnDistance - d * ReturnSpeed) < ReturnDistance

\* v is the component d of the offset to the base, scaled to ReturnSpeed
\* and kept within -5..5 m/s
ClimbLimited(v, d) ==
  CASE d * ReturnSpeed >= 5 * Metre * ReturnDistance -> v = 5 * Metre
    [] d * ReturnSpeed <= 0 - 5 * Metre * ReturnDistance -> v = 0 - 5 * Metre
    [] OTHER -> AlongOffset(v, d)

\* C25 (as the code has it): a RETURNING interceptor closer than 20 m to the
\* base at its update becomes STANDBY at rest exactly above the base at its
\* altitude + 10 m, the position update of the same tick leaving that
\* position alone; farther away it stays RETURNING, its horizontal velocity
\* that of 0.7 x max_speed towards the base and its climb rate the vertical
\* part of that velocity kept within -5..5 m/s, and it moves by that velocity.
C25_ReturnClimbLimited ==
  Returned =>
    IF ReturnDistance < ArrivalRadius * Metre
    THEN Arrived
    ELSE /\ flown[1].interceptor.state = "RETURNING"
         /\ AlongOffset(flown[1].interceptor.velocity.vx,
                        flight[1].basePosition.x - flight[1].interceptor.position.x)
         /\ AlongOffset(flown[1].interceptor.velocity.vy,
                        flight[1].basePosition.y - flight[1].interceptor.position.y)
         /\ ClimbLimited(flown[1].interceptor.velocity.climbRate,
                         flight[1].basePosition.altitude
                           - flight[1].interceptor.position.altitude)
         /\ flown[1].interceptor.position.x
              = flight[1].interceptor.position.x
                  + Scaled(flown[1].interceptor.velocity.vx, deltaTime, 1000)
         /\ flown[1].interceptor.position.altitude
              = Max(10 * Metre,
                    flight[1].interceptor.position.altitude
                      + Scaled(flown[1].interceptor.velocity.climbRate,
                               deltaTime, 1000))

\* an interceptor returned from farther than 20 m with its descent held at
\* 5 m/s
C25_Witness ==
  /\ Returned
  /\ ReturnDistance >= ArrivalRadius * Metre
  /\ flown[1].interceptor.state = "RETURNING"
  /\ flown[1].interceptor.velocity.climbRate = 0 - 5 * Metre
  /\ flown[1].interceptor.velocity.vx # 0

\* an interceptor arrived: RETURNING closer than 20 m, now STANDBY
C25_ArrivalReached ==
  Returned /\ ReturnDistance < ArrivalRadius * Metre /\ Arrived

\* the speed of the interceptor after its update
FlownSpeed ==
  Sqrt((flown[1].interceptor.velocity.vx * flown[1].interceptor.velocity.vx)
         + (flown[1].interceptor.velocity.vy * flown[1].interceptor.velocity.vy)
         + (flown[1].interceptor.velocity.climbRate
              * flown[1].interceptor.velocity.climbRate))

\* C25 as stated: closer than 20 m it arrives; farther away it stays
\* RETURNING with speed 0.7 x max_speed (to the centimetre per second of the
\* rounding) towards the base.
C25_ReturnAtSeventyPercent ==
  Returned =>
    IF ReturnDistance < ArrivalRadius * Metre
    THEN Arrived
    ELSE /\ flown[1].interceptor.state = "RETURNING"
         /\ Abs(FlownSpeed - ReturnSpeed) <= 3


\* ================================== further properties of the engine
\* C31: an engage command that names an interceptor considers only that one:
\* when the named interceptor is not in the map or is not in STANDBY the
\* command returns false and changes nothing, also while other interceptors
\* are in STANDBY and the target could be engaged.
C31_NamedInterceptorOnly ==
  [][ ( /\ last'.op = "handleEngageCommand"
        /\ last'.interceptorId # NULL
        /\ \A k \in 1..Len(interceptors) :
             interceptors[k].id = last'.interceptorId
               => interceptors[k].state # "STANDBY" )
      => /\ last'.ret = FALSE
         /\ interceptors' = interceptors
         /\ hostileDrones' = hostileDrones
         /\ log' = << >>
         /\ events' = << >>
         /\ time' = time
         /\ crashed' = crashed ]_vars

\* an engage command naming a busy interceptor has just failed, its target
\* present and not neutralized and another interceptor in STANDBY
C31_Witness ==
  /\ last.op = "handleEngageCommand"
  /\ last.ret = FALSE
  /\ last.interceptorId # NULL
  /\ \E k \in 1..Len(interceptors) :
       /\ interceptors[k].id = last.interceptorId
       /\ interceptors[k].state \in { "LAUNCHING", "PURSUING", "ENGAGING" }
  /\ \E k \in 1..Len(interceptors) : interceptors[k].state = "STANDBY"
  /\ \E k \in 1..Len(hostileDrones) :
       hostileDrones[k].id = last.droneId /\ ~hostileDrones[k].isNeutralized

\* an engage command naming an interceptor the map does not have has failed
\* with an interceptor in STANDBY and its target engageable
C31_UnknownReached ==
  /\ last.op = "handleEngageCommand"
  /\ last.ret = FALSE
  /\ last.interceptorId = UnknownInterceptorId
  /\ \E k \in 1..Len(interceptors) : interceptors[k].state = "STANDBY"
  /\ \E k \in 1..Len(hostileDrones) :
       hostileDrones[k].id = last.droneId /\ ~hostileDrones[k].isNeutralized


\* the flights of interceptors on their way up or back
InitKinFair ==
  /\ InitKin
  /\ flight[1].interceptor.state \in { "LAUNCHING", "RETURNING" }

\* Continued ticking: the next tick comes whenever one is due, and the update
\* of a tick, which is always possible, is made again and again.
SpecKinFair ==
  /\ InitKinFair
  /\ [][NextKin]_vars
  /\ WF_vars(flyOn)
  /\ []<>(flown # << >>)

\* the state of the interceptor of the flight
FlightState ==
  IF flown # << >> THEN flown[1].interceptor.state
  ELSE flight[1].interceptor.state

\* an interceptor updated while PURSUING farther than twice its engagement
\* range from a target that is present and not neutralized, or while
\* ENGAGING not within its engagement range of such a target: no time limit
\* takes it out of its state
NoTimeout ==
  ( /\ flown # << >>
    /\ flight[1].interceptor.state \in { "PURSUING", "ENGAGING" }
    /\ ~TargetGone(flight[1].target)
    /\ distance3D(flight[1].interceptor.position, flight[1].target.position)
         \div Metre
         >= ( IF flight[1].interceptor.state = "PURSUING" THEN 2 ELSE 1 )
              * flight[1].interceptor.config.engagement_range )
  => /\ flown[1].interceptor.state = flight[1].interceptor.state
     /\ flown[1].interceptResult = NULL

\* C32: under continued ticking an interceptor in RETURNING eventually
\* reaches STANDBY and an interceptor in LAUNCHING eventually reaches
\* PURSUING; PURSUING and ENGAGING have no timeout: away from its target an
\* interceptor stays in them at every world time.
C32_ReturningAndLaunchingEnd ==
  /\ (FlightState = "RETURNING") ~> (FlightState = "STANDBY")
  /\ (FlightState = "LAUNCHING") ~> (FlightState = "PURSUING")
  /\ []NoTimeout

\* an interceptor that was RETURNING high above the base is back in STANDBY
\* after more than a hundred ticks
C32_Witness ==
  /\ flown # << >>
  /\ flight[1].interceptor.state = "RETURNING"
  /\ flown[1].interceptor.state = "STANDBY"
  /\ flight[1].currentTime > LaunchDelay + 100 * tickInterval


\* C33: an update of a LAUNCHING interceptor, the one that turns it to
\* PURSUING included, leaves it with zero horizontal velocity, its x and y
\* unchanged and its altitude higher by climb_rate x deltaTime; an update of
\* an interceptor in STANDBY returns it unchanged, with no result.
C33_LaunchClimbsStandbyStays ==
  flown # << >> =>
    /\ flight[1].interceptor.state = "LAUNCHING" =>
         /\ flown[1].interceptor.state \in { "LAUNCHING", "PURSUING" }
         /\ flown[1].interceptor.velocity =
              [ vx |-> 0, vy |-> 0,
                climbRate |-> flight[1].interceptor.config.climb_rate ]
         /\ flown[1].interceptor.position.x = flight[1].interceptor.position.x
         /\ flown[1].interceptor.position.y = flight[1].interceptor.position.y
         /\ flown[1].interceptor.position.altitude =
              flight[1].interceptor.position.altitude
                + (flight[1].interceptor.config.climb_rate * deltaTime) \div 1000
    /\ flight[1].interceptor.state = "STANDBY" =>
         /\ flown[1].interceptor = flight[1].interceptor
         /\ flown[1].interceptResult = NULL

\* an interceptor that was LAUNCHING beside the base, flying level, has
\* turned to PURSUING
C33_Witness ==
  /\ flown # << >>
  /\ flight[1].interceptor.state = "LAUNCHING"
  /\ flight[1].interceptor.velocity.vx # 0
  /\ flight[1].interceptor.position.x # 0
  /\ flown[1].interceptor.state = "PURSUING"
  /\ ~TargetGone(flight[1].target)

\* an interceptor in STANDBY has been updated
C33_StandbyReached ==
  flown # << >> /\ flight[1].interceptor.state = "STANDBY"


\* an interval is live exactly while the engine runs, it is the one the engine
\* holds, and there is no second one
OneTimerWhileRunning ==
  /\ liveTimers \in { 0, 1 }
  /\ liveTimers = 1 <=> isRunning
  /\ tickTimer # NoTimer <=> isRunning

\* C34: in every reachable state a tick timer exists if and only if isRunning
\* is true, and at most one exists, whatever start, pause, reset,
\* loadScenario and setSpeedMultiplier (running or paused) did; so no tick
\* fires and world time does not advance while the engine is paused.
C34_TimerIffRunning ==
  /\ []OneTimerWhileRunning
  /\ [][ (time' > time \/ last'.op = "tickHostiles") => isRunning ]_vars

\* setSpeedMultiplier has replaced the timer of a running engine after ticks
C34_Witness ==
  /\ last.op = "setSpeedMultiplier"
  /\ isRunning
  /\ liveTimers = 1
  /\ tickTimer = 10
  /\ speedMultiplier = 10
  /\ time > 0


\* C35: in every reachable state, between ticks and inside one, each
\* interceptor in LAUNCHING, PURSUING or ENGAGING has a targetId that is not
\* null and is a key of the hostile map; so the interceptor pass resolves the
\* target of a bound interceptor, and handleInterceptResult is never called
\* with a missing target (which would throw).
C35_BoundTargetInMap ==
  /\ \A k \in 1..Len(interceptors) :
       interceptors[k].state \in { "LAUNCHING", "PURSUING", "ENGAGING" } =>
         /\ interceptors[k].targetId # NULL
         /\ MapHas(hostileDrones, interceptors[k].targetId)
         /\ TargetOf(hostileDrones, interceptors[k]).id = interceptors[k].targetId
  /\ ~crashed
  /\ last.interceptResult # NULL =>
       \E k \in 1..Len(interceptors) :
         /\ interceptors[k].id = last.interceptorId
         /\ \E h \in 1..Len(hostileDrones) :
              /\ Len(log) = 1
              /\ log[1].event = "intercept_result"
              /\ log[1].target_id = hostileDrones[h].id

\* an engagement was aborted, its target neutralized by another interceptor
\* and still in the map
C35_Witness ==
  /\ last.op = "tickInterceptor"
  /\ last.interceptResult = "ABORTED"
  /\ Len(log) = 1
  /\ \E h \in 1..Len(hostileDrones) :
       hostileDrones[h].id = log[1].target_id /\ hostileDrones[h].isNeutralized
  /\ ~crashed


\* C36: the engagement_duration logged with an intercept_result is the world
\* time at the result minus the world time at which the interceptor was
\* launched, whatever the launch time, an engage at world time 0 included.
C36_EngagementDuration ==
  [][ (last'.op = "tickInterceptor" /\ last'.interceptResult # NULL) =>
        \E k \in 1..Len(interceptors) :
          /\ interceptors[k].id = last'.interceptorId
          /\ interceptors[k].launchTime # NoTime
          /\ Len(log') = 1
          /\ log'[1].event = "intercept_result"
          /\ log'[1].engagement_duration = time' - interceptors[k].launchTime
    ]_vars


(***************************************************************************)
(* ExperimentRunner.runAll: the seed of each experiment.                   *)
(***************************************************************************)

\* the batch is run with up to this many experiments
MaxExperiments == 3

\* config.baseSeed?: number -- << >> when undefined, or << b >>
BaseSeeds == { << >>, << 0 >>, << 1 >>, << 7 >>, << 0 - 2 >> }

\* Math.floor(Math.random() * 100000)
RandomSeeds == { 0, 1, 41234, 99999 }

\* this.config.baseSeed ? this.config.baseSeed + i : random -- undefined and
\* 0 are falsy (NaN, which parseInt can give, is not followed)
seedOf(baseSeed, i, random) ==
  IF baseSeed # << >> /\ baseSeed[1] # 0 THEN baseSeed[1] + i ELSE random

\* a configuration, to be run twice
InitBatch ==
  /\ EngineInit
  /\ GenIdle
  /\ pair = NoPair
  /\ probability = NoProbability
  /\ DrawIdle
  /\ KinIdle
  /\ batch \in { << [ baseSeed |-> b, numExperiments |-> n,
                      first |-> << >>, second |-> << >> ] >> :
                 b \in BaseSeeds, n \in 1..MaxExperiments }

\* the next experiment of the first run of runAll
runFirst(random) ==
  /\ Len(batch[1].first) < batch[1].numExperiments
  /\ batch' = << [ batch[1] EXCEPT !.first =
                     Append(@, seedOf(batch[1].baseSeed, Len(batch[1].first),
                                      random)) ] >>
  /\ UNCHANGED << pair, probability, rawDraw, ranged, flight, flown >>
  /\ UNCHANGED << engineVars, genVars >>

\* the next experiment of a second run of runAll with the same configuration
runSecond(random) ==
  /\ Len(batch[1].first) = batch[1].numExperiments
  /\ Len(batch[1].second) < batch[1].numExperiments
  /\ batch' = << [ batch[1] EXCEPT !.second =
                     Append(@, seedOf(batch[1].baseSeed, Len(batch[1].second),
                                      random)) ] >>
  /\ UNCHANGED << pair, probability, rawDraw, ranged, flight, flown >>
  /\ UNCHANGED << engineVars, genVars >>

NextBatch ==
  \/ \E random \in RandomSeeds : runFirst(random)
  \/ \E random \in RandomSeeds : runSecond(random)

SpecBatch == InitBatch /\ [][NextBatch]_vars

\* C37: with a base seed b configured, any integer, 0 included, experiment
\* number i (from 0) uses seed b + i, so that a second run of the same
\* configuration uses the same seeds; a random seed is used only when no
\* base seed is configured.
C37_SeedIsBasePlusIndex ==
  \A k \in 1..Len(batch) :
    batch[k].baseSeed # << >> =>
      /\ \A i \in 1..Len(batch[k].first) :
           batch[k].first[i] = batch[k].baseSeed[1] + (i - 1)
      /\ \A i \in 1..Len(batch[k].second) :
           /\ batch[k].second[i] = batch[k].baseSeed[1] + (i - 1)
           /\ batch[k].second[i] = batch[k].first[i]


(***************************************************************************)
(* One drone of generateDrones, from any state of the generator: rawDraw   *)
(* is the seed field of the SeededRandom the loop body starts from, and    *)
(* the hostile ratio and the behavior distribution are ones generate()     *)
(* can draw.  generate() itself is called beside it.                       *)
(***************************************************************************)

\* hostile ratios within [hostileRatioMin, hostileRatioMax]
HostileRatios == { (3 * Fix) \div 10, (65 * Fix) \div 100, Fix }

\* behavior distributions generateBehaviorDistribution returns
BehaviorDistributions ==
  { generateBehaviorDistribution(SeededRandom(seed)).value : seed \in Seeds }

\* one pass of the loop of generateDrones
drawDrone(i, hostileRatio, behaviorDist) ==
  /\ ranged = << >>
  /\ ranged' =
       << generateDrone([ seed |-> rawDraw ], i, hostileRatio, behaviorDist,
                        DEFAULT_GENERATOR_CONFIG).value >>
  /\ UNCHANGED << pair, probability, rawDraw, flight, flown, batch >>
  /\ UNCHANGED << engineVars, genVars >>

NextDrone ==
  \/ \E i \in { 0, 14 }, hostileRatio \in HostileRatios,
        behaviorDist \in BehaviorDistributions :
       drawDrone(i, hostileRatio, behaviorDist)
  \/ \E seed \in Seeds : Len(lastGenerate) = 0 /\ callGenerate(seed)

SpecDrone == InitDraw /\ [][NextDrone]_vars

\* the drones in hand: those of the scenario generate() returned, and the
\* one made from the generator state
GeneratedDrones ==
  { ranged[k] : k \in 1..Len(ranged) }
    \cup UNION { { lastGenerate[k].scenario.drones[j] :
                     j \in 1..Len(lastGenerate[k].scenario.drones) } :
                 k \in 1..Len(lastGenerate) }

\* C38: in every generated scenario a drone whose is_hostile flag is false
\* has behavior RECON or NORMAL, never ATTACK_RUN or EVADE, and a drone
\* carries a target_position if and only if its behavior is RECON.
C38_NeutralBehaviorAndTarget ==
  \A drone \in GeneratedDrones :
    /\ ~drone.is_hostile => drone.behavior \in { "RECON", "NORMAL" }
    /\ drone.target_position # << >> <=> drone.behavior = "RECON"

\* a scenario with a neutral drone has been generated, and the generator
\* state in hand has made a neutral RECON drone with its target position
C38_Witness ==
  /\ Len(ranged) = 1
  /\ ~ranged[1].is_hostile
  /\ ranged[1].behavior = "RECON"
  /\ Len(ranged[1].target_position) = 1
  /\ Len(lastGenerate) = 1
  /\ \E j \in 1..Len(lastGenerate[1].scenario.drones) :
       /\ ~lastGenerate[1].scenario.drones[j].is_hostile
       /\ lastGenerate[1].scenario.drones[j].behavior \in { "RECON", "NORMAL" }


(***************************************************************************)
(* The radar configuration over resets, loads and speed changes: the runs  *)
(* of SpecLoad, with reset() and setSpeedMultiplier() beside the loads.    *)
(***************************************************************************)

\* the speed multipliers set between loads
RadarSpeedMultipliers == { 2 }

\* loadScenario's arguments: a built-in number and the id of the scenario
\* generate(7) returns
RadarLoadIds == { NumberId(2), StringId(<< "gen_", 7 >>) }

NextRadar ==
  \/ \E seed \in LoadSeeds : Len(lastGenerate) = 0 /\ callGenerate(seed)
  \/ save
  \/ \E id \in RadarLoadIds : loadScenario(id)
  \/ reset
  \/ \E multiplier \in RadarSpeedMultipliers : setSpeedMultiplier(multiplier)
  \/ start
  \/ time < MaxLoadTicks * tickInterval /\ tickHostiles
  \/ tickInterceptor
  \/ tickRadar

SpecRadar == InitLoad /\ [][NextRadar]_vars

\* the step is reset(), or a loadScenario that ran a built-in loader
ResetOrBuiltinLoad ==
  \/ last'.op = "reset"
  \/ last'.op = "loadScenario" /\ last'.loader # "loadGeneratedScenario"

\* C39: reset() and loading a built-in scenario leave the speed multiplier,
\* the radar configuration and the radar sensor instance with its scan state
\* unchanged; only loading an existing generated scenario replaces the radar
\* configuration, so that a built-in scenario loaded after a generated one
\* runs with the generated scenario's radar configuration.
C39_RadarConfigKept ==
  [][ /\ ResetOrBuiltinLoad =>
           /\ speedMultiplier' = speedMultiplier
           /\ radarConfig' = radarConfig
           /\ radarSensor' = radarSensor
      /\ radarConfig' # radarConfig =>
           /\ last'.op = "loadScenario"
           /\ last'.loader = "loadGeneratedScenario"
      /\ radarSensor'.config = radarConfig' ]_vars

\* a built-in scenario, loaded after a generated one and after a speed
\* change, has run a tick under the generated scenario's radar configuration
C39_Witness ==
  /\ IsNumber(currentScenarioId)
  /\ time > 0
  /\ speedMultiplier = 2
  /\ Len(lastGenerate) = 1
  /\ radarConfig = lastGenerate[1].scenario.radar_config
  /\ radarConfig # DEFAULT_RADAR_CONFIG
  /\ radarSensor = [ config |-> radarConfig, scanned |-> TRUE ]


(***************************************************************************)
(* Loading a generated scenario with several drones and interceptors: the  *)
(* scenario of seed 8 has three drone descriptors, one of them not        *)
(* hostile, and an interceptor_count of 4.                                 *)
(***************************************************************************)

\* the seed of the scenario the run generates and saves
GeneratedLoadSeeds == { 8 }

\* loadScenario's arguments: the id of the scenario generate(8) returns, and
\* a built-in number
GeneratedLoadIds == { StringId(<< "gen_", 8 >>), NumberId(3) }

NextGenerated ==
  \/ \E seed \in GeneratedLoadSeeds :
       Len(lastGenerate) = 0 /\ callGenerate(seed)
  \/ save
  \/ \E id \in GeneratedLoadIds : loadScenario(id)
  \/ start
  \/ time < MaxLoadTicks * tickInterval /\ tickHostiles
  \/ tickInterceptor
  \/ tickRadar

SpecGenerated == InitLoad /\ [][NextGenerated]_vars

\* the step is a loadScenario that found the generated scenario of its id
GeneratedLoad ==
  /\ last'.op = "loadScenario"
  /\ last'.loader = "loadGeneratedScenario"

\* C40: after loadScenario(id) of an existing generated scenario the hostile
\* map has exactly one entry per drone descriptor, keyed by the descriptor's
\* id (the ids being pairwise distinct, and descriptors that are not hostile
\* loaded as well), the number of interceptors equals interceptor_count with
\* all of them in STANDBY, and the radar configuration equals the scenario's
\* radar_config.
C40_GeneratedScenarioLoaded ==
  [][ GeneratedLoad =>
        LET scenario == MapGet(savedScenarios, currentScenarioId'.string)
        IN  /\ Len(hostileDrones') = Len(scenario.drones)
            /\ \A k \in 1..Len(scenario.drones) :
                 hostileDrones'[k].id = DroneNames[scenario.drones[k].id[2] + 1]
            /\ \A j, k \in 1..Len(hostileDrones') :
                 hostileDrones'[j].id = hostileDrones'[k].id => j = k
            /\ Len(interceptors') = scenario.interceptor_count
            /\ \A k \in 1..Len(interceptors') :
                 interceptors'[k].state = "STANDBY"
            /\ radarConfig' = scenario.radar_config ]_vars

====
